---- MODULE Spec2Model ----
(***************************************************************************)
(* Model of the eth event subscription engine of                          *)
(* app/submodule/eth/eth_event_api.go: EthSubscriptionManager,            *)
(* ethSubscription (addFilter, startOut, send, start, stop) and the       *)
(* EthSubscribe / EthUnsubscribe entry points that drive them.            *)
(*                                                                         *)
(* Every goroutine is a thread with a program counter; a lock is a        *)
(* variable holding the thread that owns it, acquired in a step of its    *)
(* own so that a thread waiting for one lock while holding another is a   *)
(* state of the model.                                                     *)
(***************************************************************************)
EXTENDS Integers, Sequences, FiniteSets, TLC

\* ------------------------------------------------------------------ bounds
\* const maxSendQueue = 20000 in the source, scaled down so that the
\* overflow of the send queue is reachable.
maxSendQueue == 1
\* capacity of the ingest channel (make(chan interface{}, 200)), scaled down
InCap == 1
\* number of items the filter of one subscription posts
MaxItems == 3
\* number of EthUnsubscribe calls issued by clients
MaxUnsubCalls == 1
\* largest chain height given to or read by waitForHeightProcessed
MaxHeight == 2
\* number of updates the event index makes
MaxUpdates == 2
\* capacity of the filter store (cfg.Event.MaxFilters)
MaxFilters == 2
\* number of filters the managers create for the API
MaxInstalls == 3
\* number of API calls made
MaxCalls == 3
\* the clock stops here
MaxTime == 3
\* cfg.Event.FilterTTL, in ticks of the clock
FilterTTL == 1
\* number of items the managers collect
MaxCollected == 2

\* subscription identifiers (uuid.NewRandom draws a fresh one per call)
SubIDs == {1, 2}
\* ----------------------------------------------------------------- threads
InT(s) == <<"in", s>>
OutT(s) == <<"out", s>>
SubT(s) == <<"sub", s>>
UnsubT == <<"unsub", 0>>
NoThread == <<"none", 0>>
Threads == {InT(s) : s \in SubIDs} \cup {OutT(s) : s \in SubIDs}
             \cup {SubT(s) : s \in SubIDs} \cup {UnsubT}

VARIABLES
  pc,             \* thread -> position in its code
  arg,            \* thread -> subscription the running call works on
  stopList,       \* thread -> filters left in the loop of stop()
  mgrMu,          \* EthSubscriptionManager.mu: owner or NoThread
  subMu,          \* ethSubscription.mu
  sendLk,         \* ethSubscription.sendLk
  subs,           \* EthSubscriptionManager.subs (its keys)
  quit,           \* sub -> "unborn" | "set" | "nil"  (ethSubscription.quit)
  cancelled,      \* sub -> ctx of the subscription is done
  filters,        \* sub -> ethSubscription.filters
  inCh,           \* sub -> contents of the channel ethSubscription.in
  toSend,         \* sub -> ethSubscription.toSend
  sendQueueLen,   \* sub -> ethSubscription.sendQueueLen
  sendCond,       \* sub -> number of signals held by sendCond (0 or 1)
  lastSentTipset, \* sub -> ethSubscription.lastSentTipset
  pending,        \* sub -> results the ingest stage still has to send
  installing,     \* sub -> filter EthSubscribe installed and has yet to attach
  front,          \* sub -> payload the delivery stage took off the queue
  mgrFilters,     \* filters registered with their filter manager
  posted,         \* sub -> number of items posted to its channel
  unsubCalls,     \* number of client EthUnsubscribe calls made
  result,         \* thread -> outcome of its last API call
  enqueued,       \* sub -> payloads in the order send() enqueued them
  delivered,      \* sub -> payloads in the order the callback got them
  inflight,       \* sub -> callback invocations that have not returned
  cancelCalls,    \* sub -> number of invocations of quit()
  uninstCalls,    \* filter id -> number of invocations of uninstallFilter
  stopper,        \* sub -> thread whose stop() cancelled it, or NoThread
  attachedAtCancel, \* sub -> e.filters when the subscription was cancelled
  attachedAtCall, \* thread -> e.filters when its StopSubscription found the id
  cbFailed,       \* sub -> its callback has returned an error
  \* ---- one call of waitForHeightProcessed(ctx, height)
  wfPc,           \* position of the call
  height,         \* its argument
  head,           \* GetHead().Height() as the call read it
  ctxState,       \* "live" | "timeout" | "cancelled": the call's context
  indexPast,      \* the event index satisfies IsHeightPast(height)
  subscribed,     \* subCh is registered with the index
  subCh,          \* number of notifications waiting on subCh
  updates,        \* number of updates the index has made
  wfResult,       \* what the call returned
  checks,         \* outcomes of the IsHeightPast calls, in order
  subscribeCalls, \* number of calls of SubscribeUpdates
  unsubscribeCalls, \* number of calls of unSubscribeF
  \* ---- history of the ingest stage
  received,       \* sub -> TipSets the ingest stage took from e.in, in order
  \* ---- one call of parseBlockRange(heaviest, fromBlock, toBlock, maxRange)
  prPc,           \* "idle" | "call" | "done"
  heaviest,       \* its arguments
  fromBlock,
  toBlock,
  maxRange,
  minHeight,      \* its results
  maxHeight,
  prErr,
  \* ---- the polling-filter API: filter store, garbage collector, EthGetLogs
  disable,        \* ethEventAPI.disable: the managers and the store are nil
  indexEnabled,   \* EventFilterManager.EventIndex is not nil
  store,          \* the filters in e.FilterStore
  lastTaken,      \* filter id -> its last-access time
  collected,      \* filter id -> the items in its buffer
  now,            \* the clock
  installs,       \* number of filters the managers have created for the API
  apiPc,          \* API thread -> position in its call
  apiCall,        \* API thread -> the call it runs and its arguments
  apiF,           \* API thread -> the filter the call has in hand
  apiTaken,       \* API thread -> what TakeCollected* gave the call
  apiRes,         \* API thread -> what its last call returned
  gcList,         \* filters the running sweep has yet to uninstall
  gcCut,          \* now - ttl of the running sweep
  gcOld,          \* the filters NotTakenSince gave to the running sweep
  tipsetProcessed, \* what IsTipsetProcessed told the running EthGetLogs
  snap,           \* API thread -> store and managers when its call began
  calls,          \* number of API calls made
  collects,       \* number of items the managers have collected
  polled,         \* <<filter id, item>> for the items polls have returned, in order
  \* ---- one call of ethLogFromEvent(entries)
  logPc,          \* "idle" | "call" | "done"
  entries,        \* its argument
  logOut          \* its results: data, topics, ok

ctlVars == <<pc, arg, stopList, result, unsubCalls>>
lockVars == <<mgrMu, subMu, sendLk>>
subVars == <<subs, quit, cancelled, filters>>
chanVars == <<inCh, posted, pending, lastSentTipset>>
filterVars == <<mgrFilters, installing>>
queueVars == <<toSend, sendQueueLen, sendCond, front>>
histVars == <<enqueued, delivered, inflight, cancelCalls, uninstCalls,
              stopper, attachedAtCancel, attachedAtCall, cbFailed>>
coreVars == <<ctlVars, lockVars, subVars, chanVars, queueVars, filterVars, histVars>>
waitVars == <<wfPc, height, head, ctxState, indexPast, subscribed, subCh,
              updates, wfResult, checks, subscribeCalls, unsubscribeCalls>>
rangeVars == <<prPc, heaviest, fromBlock, toBlock, maxRange, minHeight,
               maxHeight, prErr>>
apiVars == <<disable, indexEnabled, store, lastTaken, collected, now, installs,
             apiPc, apiCall, apiF, apiTaken, apiRes, gcList, gcCut, gcOld, tipsetProcessed, snap,
             calls, collects, polled>>
logVars == <<logPc, entries, logOut>>
auxVars == <<waitVars, received, rangeVars, apiVars, logVars>>
vars == <<coreVars, auxVars>>

\* ------------------------------------------------------------------- values
NoFilter == [id |-> 0, kind |-> "none"]
NoPayload == [n |-> 0, kind |-> "none", key |-> ""]
NoKey == ""
FilterKinds == {"tipset", "event", "mempool"}
EventTypes == {"newHeads", "logs", "newPendingTransactions", "unsupported"}
TipSetKeys == {"A"}
\* key of the tipset at height 0
GenesisKey == "G"

Range(q) == {q[i] : i \in 1..Len(q)}

\* The filter a manager's Install returns for the subscription s. Filter
\* identifiers are fresh per Install; a subscription installs at most one.
NewFilter(s, kind) == [id |-> s, kind |-> kind]

\* What a filter of each kind posts to its bound channel: a CollectedEvent,
\* a TipSet or a SignedMessage. ok says whether the conversions the ingest
\* stage runs on the item succeed.
ItemsFor(kind, n) ==
  CASE kind = "event" ->
         {[n |-> n, kind |-> "event", ok |-> b, height |-> 1, parents |-> NoKey] :
            b \in BOOLEAN}
    [] kind = "mempool" ->
         {[n |-> n, kind |-> "msg", ok |-> b, height |-> 1, parents |-> NoKey] :
            b \in BOOLEAN}
    [] kind = "tipset" ->
         \* the tipset at height 0, a tipset whose parent is the tipset at
         \* height 0, and tipsets at height 2 with parents A or B
         {[n |-> n, kind |-> "tipset", ok |-> TRUE, height |-> 0, parents |-> NoKey],
          [n |-> n, kind |-> "tipset", ok |-> TRUE, height |-> 1, parents |-> GenesisKey],
          [n |-> n, kind |-> "tipset", ok |-> FALSE, height |-> 2, parents |-> "A"]}
         \cup {[n |-> n, kind |-> "tipset", ok |-> TRUE, height |-> 2, parents |-> k] :
                 k \in TipSetKeys}

\* variant: a tipset whose parent is the last one sent is not skipped
ResultsNoDedup(v, last) ==
  CASE v.kind = "event" ->
         IF v.ok THEN <<[n |-> v.n, kind |-> "log", key |-> NoKey]>> ELSE <<>>
    [] v.kind = "msg" ->
         IF v.ok THEN <<[n |-> v.n, kind |-> "txhash", key |-> NoKey]>> ELSE <<>>
    [] v.kind = "tipset" ->
         IF v.height = 0 THEN <<>>
         ELSE IF ~v.ok THEN <<>>
         ELSE <<[n |-> v.n, kind |-> "block", key |-> v.parents]>>

\* variant: the tipset at height 0 is not skipped
ResultsNoHeightSkip(v, last) ==
  CASE v.kind = "event" ->
         IF v.ok THEN <<[n |-> v.n, kind |-> "log", key |-> NoKey]>> ELSE <<>>
    [] v.kind = "msg" ->
         IF v.ok THEN <<[n |-> v.n, kind |-> "txhash", key |-> NoKey]>> ELSE <<>>
    [] v.kind = "tipset" ->
         IF last # NoKey /\ last = v.parents THEN <<>>
         ELSE IF ~v.ok THEN <<>>
         ELSE <<[n |-> v.n, kind |-> "block", key |-> v.parents]>>

\* The results the ingest stage sends for an item it received (start()).
Results(v, last) ==
  CASE v.kind = "event" ->
         IF v.ok THEN <<[n |-> v.n, kind |-> "log", key |-> NoKey]>> ELSE <<>>
    [] v.kind = "msg" ->
         IF v.ok THEN <<[n |-> v.n, kind |-> "txhash", key |-> NoKey]>> ELSE <<>>
    [] v.kind = "tipset" ->
         IF v.height = 0 THEN <<>>
         ELSE IF last # NoKey /\ last = v.parents THEN <<>>
         ELSE IF ~v.ok THEN <<>>
         ELSE <<[n |-> v.n, kind |-> "block", key |-> v.parents]>>

\* variants of the cap test: >= in place of >, and a cap one too high
SendOverflowsAtCap(len) == len >= maxSendQueue
SendOverflowsLate(len) == len > maxSendQueue + 1

\* if e.sendQueueLen > maxSendQueue
SendOverflows(len) == len > maxSendQueue

\* variant: startOut goes on with its loop after e.stop()
AfterStopOutContinues(t) ==
  CASE t[1] = "in" -> "send_ret"
    [] t[1] = "out" -> "out_lock"
    [] OTHER -> "unsub_del"

\* where a thread continues when its call of stop() returns
AfterStop(t) ==
  CASE t[1] = "in" -> "send_ret"
    [] t[1] = "out" -> "done"
    [] OTHER -> "unsub_del"

\* variant: EthUnsubscribe answers true whatever StopSubscription returned
EthUnsubscribeAlwaysTrue(found) == "true"

\* EthUnsubscribe: (false, nil) when StopSubscription returned an error,
\* (true, nil) otherwise.
EthUnsubscribeResult(found) == IF found THEN "true" ELSE "false"

\* where a thread continues when its call of EthUnsubscribe returns
AfterUnsub(t) == IF t = UnsubT THEN "idle" ELSE "done"

\* ------------------------------------------------------------------- Init
\* no call of waitForHeightProcessed has been made
WaitInit ==
  /\ wfPc = "idle"
  /\ height = 0
  /\ head = 0
  /\ ctxState = "live"
  /\ indexPast = FALSE
  /\ subscribed = FALSE
  /\ subCh = 0
  /\ updates = 0
  /\ wfResult = "none"
  /\ checks = <<>>
  /\ subscribeCalls = 0
  /\ unsubscribeCalls = 0

\* a pointer to a string: nil, or the string as the sequence of its characters
NilPtr == [nil |-> TRUE, s |-> <<>>]

\* no call of parseBlockRange has been made
RangeIdle ==
  /\ prPc = "idle"
  /\ heaviest = 0
  /\ fromBlock = NilPtr
  /\ toBlock = NilPtr
  /\ maxRange = 0
  /\ minHeight = 0
  /\ maxHeight = 0
  /\ prErr = "none"

\* no subscription exists and no call is running
SubIdle ==
  /\ received = [s \in SubIDs |-> <<>>]
  /\ pc = [t \in Threads |-> IF t[1] \in {"in", "out"} THEN "off" ELSE "idle"]
  /\ arg = [t \in Threads |-> IF t[1] \in {"in", "out"} THEN t[2] ELSE 0]
  /\ stopList = [t \in Threads |-> <<>>]
  /\ result = [t \in Threads |-> "none"]
  /\ unsubCalls = 0
  /\ mgrMu = NoThread
  /\ subMu = [s \in SubIDs |-> NoThread]
  /\ sendLk = [s \in SubIDs |-> NoThread]
  /\ subs = {}
  /\ quit = [s \in SubIDs |-> "unborn"]
  /\ cancelled = [s \in SubIDs |-> FALSE]
  /\ filters = [s \in SubIDs |-> <<>>]
  /\ inCh = [s \in SubIDs |-> <<>>]
  /\ posted = [s \in SubIDs |-> 0]
  /\ pending = [s \in SubIDs |-> <<>>]
  /\ lastSentTipset = [s \in SubIDs |-> NoKey]
  /\ toSend = [s \in SubIDs |-> <<>>]
  /\ sendQueueLen = [s \in SubIDs |-> 0]
  /\ sendCond = [s \in SubIDs |-> 0]
  /\ front = [s \in SubIDs |-> NoPayload]
  /\ installing = [s \in SubIDs |-> NoFilter]
  /\ enqueued = [s \in SubIDs |-> <<>>]
  /\ delivered = [s \in SubIDs |-> <<>>]
  /\ inflight = [s \in SubIDs |-> 0]
  /\ cancelCalls = [s \in SubIDs |-> 0]
  /\ uninstCalls = [s \in SubIDs |-> 0]
  /\ stopper = [s \in SubIDs |-> NoThread]
  /\ attachedAtCancel = [s \in SubIDs |-> <<>>]
  /\ attachedAtCall = [t \in Threads |-> <<>>]
  /\ cbFailed = [s \in SubIDs |-> FALSE]

\* no subscription exists and no filter is registered with a manager
SubInit ==
  /\ SubIdle
  /\ mgrFilters = {}

\* a byte string: its length and a name for its contents
NilBytes == [len |-> 0, v |-> "nil"]
\* what ethLogFromEvent returns for an event it drops
Rejected == [data |-> NilBytes, topics |-> <<>>, ok |-> FALSE]

\* no call of ethLogFromEvent has been made
LogIdle ==
  /\ logPc = "idle"
  /\ entries = <<>>
  /\ logOut = Rejected

\* the threads of the polling-filter API: two clients and the GC loop
Clients == {"c1", "c2"}
GcT == "gc"
ApiThreads == Clients \cup {GcT}
\* identifiers the managers give to the filters they create for the API
ApiIDs == 11..(10 + MaxInstalls)

NoSpec == [blockHash |-> FALSE, fromBlock |-> NilPtr, toBlock |-> NilPtr,
           valid |-> TRUE]
NoCall == [op |-> "none", spec |-> NoSpec, id |-> 0, head |-> 0]
NoResult == [r |-> "none", id |-> 0, items |-> <<>>]

\* what is remembered of the state a call began in, and of the call before it
NoSnap == [store |-> {}, mgr |-> {}, installs |-> 0, was |-> <<{}, {}>>,
           wasId |-> 0]

\* no API call has been made, the store is empty, no sweep is running
ApiIdle ==
  /\ store = {}
  /\ lastTaken = [i \in ApiIDs |-> 0]
  /\ collected = [i \in ApiIDs |-> <<>>]
  /\ now = 0
  /\ installs = 0
  /\ apiPc = [c \in ApiThreads |-> "idle"]
  /\ apiCall = [c \in ApiThreads |-> NoCall]
  /\ apiF = [c \in ApiThreads |-> NoFilter]
  /\ apiTaken = [c \in ApiThreads |-> <<>>]
  /\ apiRes = [c \in ApiThreads |-> NoResult]
  /\ gcList = <<>>
  /\ gcCut = 0
  /\ gcOld = {}
  /\ tipsetProcessed = "none"
  /\ snap = [c \in ApiThreads |-> NoSnap]
  /\ calls = 0
  /\ collects = 0
  /\ polled = <<>>

Init ==
  /\ WaitInit
  /\ RangeIdle
  /\ SubInit
  /\ disable = FALSE
  /\ indexEnabled = TRUE
  /\ ApiIdle
  /\ LogIdle

\* ------------------------------------------------------------ EthSubscribe
\* uuid.NewRandom fails: StartSubscription and EthSubscribe return the error.
StartSubscriptionFail(s) ==
  /\ pc[SubT(s)] = "idle"
  /\ pc' = [pc EXCEPT ![SubT(s)] = "done"]
  /\ result' = [result EXCEPT ![SubT(s)] = "err_uuid"]
  /\ UNCHANGED <<arg, stopList, unsubCalls>>
  /\ UNCHANGED <<lockVars, subVars, chanVars, queueVars, filterVars, histVars>>
  /\ UNCHANGED auxVars

\* StartSubscription: the subscription is built, registered under mu, and its
\* two stages are started.
StartSubscription(s) ==
  /\ pc[SubT(s)] = "idle"
  /\ mgrMu = NoThread
  /\ subs' = subs \cup {s}
  /\ quit' = [quit EXCEPT ![s] = "set"]
  /\ pc' = [pc EXCEPT ![SubT(s)] = "switch", ![InT(s)] = "start",
                      ![OutT(s)] = "select"]
  /\ arg' = [arg EXCEPT ![SubT(s)] = s]
  /\ UNCHANGED <<stopList, result, unsubCalls, cancelled, filters>>
  /\ UNCHANGED <<lockVars, chanVars, queueVars, filterVars, histVars>>
  /\ UNCHANGED auxVars

\* The filter kind EthSubscribe installs for an event type.
KindOf(evType) ==
  CASE evType = "newHeads" -> "tipset"
    [] evType = "logs" -> "event"
    [] evType = "newPendingTransactions" -> "mempool"

\* switch params.EventType: the manager's Install succeeds and the filter is
\* registered with it; addFilter is the next call.
SubscribeInstall(s, types) ==
  /\ pc[SubT(s)] = "switch"
  /\ \E evType \in types \ {"unsupported"} :
       /\ installing' = [installing EXCEPT ![s] = NewFilter(s, KindOf(evType))]
       /\ mgrFilters' = mgrFilters \cup {NewFilter(s, KindOf(evType))}
  /\ pc' = [pc EXCEPT ![SubT(s)] = "addf_lock"]
  /\ UNCHANGED <<arg, stopList, result, unsubCalls>>
  /\ UNCHANGED <<lockVars, subVars, chanVars, queueVars, histVars>>
  /\ UNCHANGED auxVars

\* variant: the error of Install is returned without EthUnsubscribe
SubscribeInstallFailNoCleanup(s) ==
  /\ pc[SubT(s)] = "switch"
  /\ pc' = [pc EXCEPT ![SubT(s)] = "done"]
  /\ result' = [result EXCEPT ![SubT(s)] = "err"]
  /\ UNCHANGED <<arg, stopList, unsubCalls>>
  /\ UNCHANGED <<lockVars, subVars, chanVars, queueVars, filterVars, histVars>>
  /\ UNCHANGED auxVars

\* switch params.EventType: Install or parseEthTopics returns an error, and
\* EthSubscribe calls EthUnsubscribe(sub.id) before it returns that error
\* (result "err").
SubscribeInstallFail(s) ==
  /\ pc[SubT(s)] = "switch"
  /\ pc' = [pc EXCEPT ![SubT(s)] = "unsub_lock"]
  /\ UNCHANGED <<arg, stopList, result, unsubCalls>>
  /\ UNCHANGED <<lockVars, subVars, chanVars, queueVars, filterVars, histVars>>
  /\ UNCHANGED auxVars

\* switch params.EventType: an address of a logs subscription cannot be
\* converted, or the event type is unsupported: EthSubscribe returns the error.
SubscribeReject(s) ==
  /\ pc[SubT(s)] = "switch"
  /\ pc' = [pc EXCEPT ![SubT(s)] = "done"]
  /\ result' = [result EXCEPT ![SubT(s)] = "err_rejected"]
  /\ UNCHANGED <<arg, stopList, unsubCalls>>
  /\ UNCHANGED <<lockVars, subVars, chanVars, queueVars, filterVars, histVars>>
  /\ UNCHANGED auxVars

\* addFilter: e.mu.Lock()
AddFilterLock(s) ==
  /\ pc[SubT(s)] = "addf_lock"
  /\ subMu[s] = NoThread
  /\ subMu' = [subMu EXCEPT ![s] = SubT(s)]
  /\ pc' = [pc EXCEPT ![SubT(s)] = "addf_cs"]
  /\ UNCHANGED <<arg, stopList, result, unsubCalls, mgrMu, sendLk>>
  /\ UNCHANGED <<subVars, chanVars, queueVars, filterVars, histVars>>
  /\ UNCHANGED auxVars

\* addFilter: SetSubChannel, append to e.filters, unlock; EthSubscribe
\* returns the subscription id.
AddFilter(s) ==
  /\ pc[SubT(s)] = "addf_cs"
  /\ filters' = [filters EXCEPT ![s] = Append(@, installing[s])]
  /\ installing' = [installing EXCEPT ![s] = NoFilter]
  /\ subMu' = [subMu EXCEPT ![s] = NoThread]
  /\ pc' = [pc EXCEPT ![SubT(s)] = "done"]
  /\ result' = [result EXCEPT ![SubT(s)] = "ok"]
  /\ UNCHANGED <<arg, stopList, unsubCalls, mgrMu, sendLk>>
  /\ UNCHANGED <<subs, quit, cancelled, mgrFilters>>
  /\ UNCHANGED <<chanVars, queueVars, histVars>>
  /\ UNCHANGED auxVars

\* ---------------------------------------------------------- EthUnsubscribe
\* A client calls EthUnsubscribe(id) with any identifier.
UnsubscribeCall(ids) ==
  /\ pc[UnsubT] = "idle"
  /\ unsubCalls < MaxUnsubCalls
  /\ \E id \in ids : arg' = [arg EXCEPT ![UnsubT] = id]
  /\ unsubCalls' = unsubCalls + 1
  /\ pc' = [pc EXCEPT ![UnsubT] = "unsub_lock"]
  /\ result' = [result EXCEPT ![UnsubT] = "none"]
  /\ UNCHANGED <<stopList>>
  /\ UNCHANGED <<lockVars, subVars, chanVars, queueVars, filterVars, histVars>>
  /\ UNCHANGED auxVars

\* StopSubscription: e.mu.Lock(); sub, ok := e.subs[id]; if !ok the error is
\* returned (the deferred unlock runs) and EthUnsubscribe answers (false, nil).
StopSubscriptionNotFound(t) ==
  /\ pc[t] = "unsub_lock"
  /\ mgrMu = NoThread
  /\ arg[t] \notin subs
  /\ result' = [result EXCEPT ![t] =
                  IF t = UnsubT THEN EthUnsubscribeResult(FALSE) ELSE "err"]
  /\ pc' = [pc EXCEPT ![t] = AfterUnsub(t)]
  /\ UNCHANGED <<arg, stopList, unsubCalls>>
  /\ UNCHANGED <<lockVars, subVars, chanVars, queueVars, filterVars, histVars>>
  /\ UNCHANGED auxVars

\* StopSubscription: e.mu.Lock(); the id is registered, sub.stop() is called
\* with e.mu held.
StopSubscriptionFound(t) ==
  /\ pc[t] = "unsub_lock"
  /\ mgrMu = NoThread
  /\ arg[t] \in subs
  /\ mgrMu' = t
  /\ pc' = [pc EXCEPT ![t] = "stop_lock"]
  /\ UNCHANGED <<arg, stopList, result, unsubCalls, subMu, sendLk>>
  /\ attachedAtCall' = [attachedAtCall EXCEPT ![t] = filters[arg[t]]]
  /\ UNCHANGED <<subVars, chanVars, queueVars, filterVars>>
  /\ UNCHANGED <<enqueued, delivered, inflight, cancelCalls, uninstCalls>>
  /\ UNCHANGED <<stopper, attachedAtCancel, cbFailed>>
  /\ UNCHANGED auxVars

\* variant: the id is left in e.subs
StopSubscriptionKeeps(t) ==
  /\ pc[t] = "unsub_del"
  /\ mgrMu' = NoThread
  /\ result' = [result EXCEPT ![t] =
                  IF t = UnsubT THEN EthUnsubscribeResult(TRUE) ELSE "err"]
  /\ pc' = [pc EXCEPT ![t] = AfterUnsub(t)]
  /\ UNCHANGED <<arg, stopList, unsubCalls, subMu, sendLk>>
  /\ UNCHANGED <<subVars, chanVars, queueVars, filterVars, histVars>>
  /\ UNCHANGED auxVars

\* variant: the registry is emptied instead of losing the one id
StopSubscriptionClears(t) ==
  /\ pc[t] = "unsub_del"
  /\ subs' = {}
  /\ mgrMu' = NoThread
  /\ result' = [result EXCEPT ![t] =
                  IF t = UnsubT THEN EthUnsubscribeResult(TRUE) ELSE "err"]
  /\ pc' = [pc EXCEPT ![t] = AfterUnsub(t)]
  /\ UNCHANGED <<arg, stopList, unsubCalls, subMu, sendLk>>
  /\ UNCHANGED <<quit, cancelled, filters>>
  /\ UNCHANGED <<chanVars, queueVars, filterVars, histVars>>
  /\ UNCHANGED auxVars

\* StopSubscription: delete(e.subs, id), return nil (the deferred unlock
\* runs) and EthUnsubscribe answers (true, nil).
StopSubscriptionDelete(t) ==
  /\ pc[t] = "unsub_del"
  /\ subs' = subs \ {arg[t]}
  /\ mgrMu' = NoThread
  /\ result' = [result EXCEPT ![t] =
                  IF t = UnsubT THEN EthUnsubscribeResult(TRUE) ELSE "err"]
  /\ pc' = [pc EXCEPT ![t] = AfterUnsub(t)]
  /\ UNCHANGED <<arg, stopList, unsubCalls, subMu, sendLk>>
  /\ UNCHANGED <<quit, cancelled, filters>>
  /\ UNCHANGED <<chanVars, queueVars, filterVars, histVars>>
  /\ UNCHANGED auxVars

\* ------------------------------------------------------------------ stop()
\* variant: stop() locks sendLk before e.mu
StopLockAfterSendLk(t) ==
  /\ pc[t] = "stop_lock"
  /\ sendLk[arg[t]] = NoThread
  /\ subMu[arg[t]] = NoThread
  /\ subMu' = [subMu EXCEPT ![arg[t]] = t]
  /\ pc' = [pc EXCEPT ![t] = "stop_cs"]
  /\ UNCHANGED <<arg, stopList, result, unsubCalls, mgrMu, sendLk>>
  /\ UNCHANGED <<subVars, chanVars, queueVars, filterVars>>
  /\ UNCHANGED <<enqueued, delivered, inflight, cancelCalls, uninstCalls>>
  /\ UNCHANGED <<stopper, attachedAtCancel, attachedAtCall, cbFailed>>
  /\ UNCHANGED auxVars

\* stop: e.mu.Lock()
StopLock(t) ==
  /\ pc[t] = "stop_lock"
  /\ subMu[arg[t]] = NoThread
  /\ subMu' = [subMu EXCEPT ![arg[t]] = t]
  /\ pc' = [pc EXCEPT ![t] = "stop_cs"]
  /\ UNCHANGED <<arg, stopList, result, unsubCalls, mgrMu, sendLk>>
  /\ UNCHANGED <<subVars, chanVars, queueVars, filterVars>>
  /\ UNCHANGED <<enqueued, delivered, inflight, cancelCalls, uninstCalls>>
  /\ UNCHANGED <<stopper, attachedAtCancel, attachedAtCall, cbFailed>>
  /\ UNCHANGED auxVars

\* variant: a stop() that finds quit cleared runs the uninstall loop again
StopAlreadyRepeats(t) ==
  /\ pc[t] = "stop_cs"
  /\ quit[arg[t]] = "nil"
  /\ subMu' = [subMu EXCEPT ![arg[t]] = NoThread]
  /\ pc' = [pc EXCEPT ![t] = "stop_range"]
  /\ UNCHANGED <<arg, stopList, result, unsubCalls, mgrMu, sendLk>>
  /\ UNCHANGED <<subVars, chanVars, queueVars, filterVars, histVars>>
  /\ UNCHANGED auxVars

\* stop: if e.quit == nil { unlock; return }
StopAlready(t) ==
  /\ pc[t] = "stop_cs"
  /\ quit[arg[t]] = "nil"
  /\ subMu' = [subMu EXCEPT ![arg[t]] = NoThread]
  /\ pc' = [pc EXCEPT ![t] = AfterStop(t)]
  /\ UNCHANGED <<arg, stopList, result, unsubCalls, mgrMu, sendLk>>
  /\ UNCHANGED <<subVars, chanVars, queueVars, filterVars, histVars>>
  /\ UNCHANGED auxVars

\* stop: e.quit(); e.quit = nil; unlock
StopCancel(t) ==
  /\ pc[t] = "stop_cs"
  /\ quit[arg[t]] # "nil"
  /\ cancelled' = [cancelled EXCEPT ![arg[t]] = TRUE]
  /\ cancelCalls' = [cancelCalls EXCEPT ![arg[t]] = @ + 1]
  /\ quit' = [quit EXCEPT ![arg[t]] = "nil"]
  /\ stopper' = [stopper EXCEPT ![arg[t]] = t]
  /\ attachedAtCancel' = [attachedAtCancel EXCEPT ![arg[t]] = filters[arg[t]]]
  /\ subMu' = [subMu EXCEPT ![arg[t]] = NoThread]
  /\ pc' = [pc EXCEPT ![t] = "stop_range"]
  /\ UNCHANGED <<arg, stopList, result, unsubCalls, mgrMu, sendLk>>
  /\ UNCHANGED <<subs, filters>>
  /\ UNCHANGED <<chanVars, queueVars, filterVars>>
  /\ UNCHANGED <<enqueued, delivered, inflight, uninstCalls, attachedAtCall, cbFailed>>
  /\ UNCHANGED auxVars

\* stop: for _, f := range e.filters: the range expression is read once, with
\* e.mu released.
StopRange(t) ==
  /\ pc[t] = "stop_range"
  /\ stopList' = [stopList EXCEPT ![t] = filters[arg[t]]]
  /\ pc' = [pc EXCEPT ![t] = "stop_loop"]
  /\ UNCHANGED <<arg, result, unsubCalls>>
  /\ UNCHANGED <<lockVars, subVars, chanVars, queueVars, filterVars, histVars>>
  /\ UNCHANGED auxVars

\* uninstallFilter(f): the manager of f's variant removes it (not-found is
\* tolerated) unless it fails with another error, which is returned.
UninstallFilter(f, managerFails) ==
  /\ uninstCalls' = [uninstCalls EXCEPT ![f.id] = @ + 1]
  /\ mgrFilters' = IF managerFails THEN mgrFilters ELSE mgrFilters \ {f}

\* stop: one iteration of the loop; an error is logged and the loop goes on.
StopUninstall(t) ==
  /\ pc[t] = "stop_loop"
  /\ stopList[t] # <<>>
  /\ \E managerFails \in BOOLEAN : UninstallFilter(Head(stopList[t]), managerFails)
  /\ stopList' = [stopList EXCEPT ![t] = Tail(@)]
  /\ UNCHANGED <<pc, arg, result, unsubCalls, installing>>
  /\ UNCHANGED <<lockVars, subVars, chanVars, queueVars>>
  /\ UNCHANGED <<enqueued, delivered, inflight, cancelCalls>>
  /\ UNCHANGED <<stopper, attachedAtCancel, attachedAtCall, cbFailed>>
  /\ UNCHANGED auxVars

\* stop: the loop is over, stop() returns.
StopReturn(t) ==
  /\ pc[t] = "stop_loop"
  /\ stopList[t] = <<>>
  /\ pc' = [pc EXCEPT ![t] = AfterStop(t)]
  /\ UNCHANGED <<arg, stopList, result, unsubCalls>>
  /\ UNCHANGED <<lockVars, subVars, chanVars, queueVars, filterVars, histVars>>
  /\ UNCHANGED auxVars

\* ------------------------------------------------------ ingest stage: start
\* start: if ctx.Err() == nil { for { select ... } }
IngestStart(s) ==
  /\ pc[InT(s)] = "start"
  /\ pc' = [pc EXCEPT ![InT(s)] = IF cancelled[s] THEN "done" ELSE "select"]
  /\ UNCHANGED <<arg, stopList, result, unsubCalls>>
  /\ UNCHANGED <<lockVars, subVars, chanVars, queueVars, filterVars, histVars>>
  /\ UNCHANGED auxVars

\* start: case <-ctx.Done(): return
IngestDone(s) ==
  /\ pc[InT(s)] = "select"
  /\ cancelled[s]
  /\ pc' = [pc EXCEPT ![InT(s)] = "done"]
  /\ UNCHANGED <<arg, stopList, result, unsubCalls>>
  /\ UNCHANGED <<lockVars, subVars, chanVars, queueVars, filterVars, histVars>>
  /\ UNCHANGED auxVars

\* start: case v := <-e.in: the item is converted; with nothing to send the
\* loop continues, otherwise send() is called on the first result.
IngestReceive(s) ==
  /\ pc[InT(s)] = "select"
  /\ inCh[s] # <<>>
  /\ inCh' = [inCh EXCEPT ![s] = Tail(@)]
  /\ pending' = [pending EXCEPT ![s] = Results(Head(inCh[s]), lastSentTipset[s])]
  /\ pc' = [pc EXCEPT ![InT(s)] =
              IF Results(Head(inCh[s]), lastSentTipset[s]) = <<>>
              THEN "select" ELSE "send_lock"]
  /\ received' = [received EXCEPT ![s] =
                    IF Head(inCh[s]).kind = "tipset" THEN Append(@, Head(inCh[s]))
                    ELSE @]
  /\ UNCHANGED <<arg, stopList, result, unsubCalls, posted, lastSentTipset>>
  /\ UNCHANGED <<lockVars, subVars, queueVars, filterVars, histVars>>
  /\ UNCHANGED <<waitVars, rangeVars, apiVars, logVars>>

\* What follows the return of send() in start(): after a block record
\* lastSentTipset is set to the parent key; then the next result or the select.
SendReturns(s) ==
  /\ pending' = [pending EXCEPT ![s] = Tail(@)]
  /\ lastSentTipset' = [lastSentTipset EXCEPT ![s] =
        IF Head(pending[s]).kind = "block" THEN Head(pending[s]).key ELSE @]
  /\ pc' = [pc EXCEPT ![InT(s)] =
              IF Tail(pending[s]) = <<>> THEN "select" ELSE "send_lock"]

\* send: json.Marshal(resp) fails: the payload is dropped and send() returns.
SendMarshalFail(s) ==
  /\ pc[InT(s)] = "send_lock"
  /\ SendReturns(s)
  /\ UNCHANGED <<arg, stopList, result, unsubCalls>>
  /\ UNCHANGED <<inCh, posted>>
  /\ UNCHANGED <<lockVars, subVars, queueVars, filterVars, histVars>>
  /\ UNCHANGED auxVars

\* variant: send() enqueues without counting the payload
SendEnqueueNoCount(s) ==
  /\ pc[InT(s)] = "send_lock"
  /\ sendLk[s] = NoThread
  /\ ~SendOverflows(sendQueueLen[s] + 1)
  /\ toSend' = [toSend EXCEPT ![s] = Append(@, Head(pending[s]))]
  /\ enqueued' = [enqueued EXCEPT ![s] = Append(@, Head(pending[s]))]
  /\ UNCHANGED sendQueueLen
  /\ sendCond' = [sendCond EXCEPT ![s] = 1]
  /\ SendReturns(s)
  /\ UNCHANGED <<arg, stopList, result, unsubCalls>>
  /\ UNCHANGED <<inCh, posted, front>>
  /\ UNCHANGED <<lockVars, subVars, filterVars>>
  /\ UNCHANGED <<delivered, inflight, cancelCalls, uninstCalls>>
  /\ UNCHANGED <<stopper, attachedAtCancel, attachedAtCall, cbFailed>>
  /\ UNCHANGED auxVars

\* variant: send() does not signal sendCond
SendEnqueueNoSignal(s) ==
  /\ pc[InT(s)] = "send_lock"
  /\ sendLk[s] = NoThread
  /\ ~SendOverflows(sendQueueLen[s] + 1)
  /\ toSend' = [toSend EXCEPT ![s] = Append(@, Head(pending[s]))]
  /\ enqueued' = [enqueued EXCEPT ![s] = Append(@, Head(pending[s]))]
  /\ sendQueueLen' = [sendQueueLen EXCEPT ![s] = @ + 1]
  /\ UNCHANGED sendCond
  /\ SendReturns(s)
  /\ UNCHANGED <<arg, stopList, result, unsubCalls>>
  /\ UNCHANGED <<inCh, posted, front>>
  /\ UNCHANGED <<lockVars, subVars, filterVars>>
  /\ UNCHANGED <<delivered, inflight, cancelCalls, uninstCalls>>
  /\ UNCHANGED <<stopper, attachedAtCancel, attachedAtCall, cbFailed>>
  /\ UNCHANGED auxVars

\* send: sendLk.Lock(), Enqueue, sendQueueLen++, the queue is within its cap:
\* sendCond is signalled unless a signal is pending; the deferred unlock runs.
SendEnqueue(s) ==
  /\ pc[InT(s)] = "send_lock"
  /\ sendLk[s] = NoThread
  /\ ~SendOverflows(sendQueueLen[s] + 1)
  /\ toSend' = [toSend EXCEPT ![s] = Append(@, Head(pending[s]))]
  /\ enqueued' = [enqueued EXCEPT ![s] = Append(@, Head(pending[s]))]
  /\ sendQueueLen' = [sendQueueLen EXCEPT ![s] = @ + 1]
  /\ sendCond' = [sendCond EXCEPT ![s] = 1]
  /\ SendReturns(s)
  /\ UNCHANGED <<arg, stopList, result, unsubCalls>>
  /\ UNCHANGED <<inCh, posted, front>>
  /\ UNCHANGED <<lockVars, subVars, filterVars>>
  /\ UNCHANGED <<delivered, inflight, cancelCalls, uninstCalls>>
  /\ UNCHANGED <<stopper, attachedAtCancel, attachedAtCall, cbFailed>>
  /\ UNCHANGED auxVars

\* send: sendLk.Lock(), Enqueue, sendQueueLen++, the queue is over its cap:
\* e.stop() is called with sendLk held.
SendOverflow(s) ==
  /\ pc[InT(s)] = "send_lock"
  /\ sendLk[s] = NoThread
  /\ SendOverflows(sendQueueLen[s] + 1)
  /\ sendLk' = [sendLk EXCEPT ![s] = InT(s)]
  /\ toSend' = [toSend EXCEPT ![s] = Append(@, Head(pending[s]))]
  /\ enqueued' = [enqueued EXCEPT ![s] = Append(@, Head(pending[s]))]
  /\ sendQueueLen' = [sendQueueLen EXCEPT ![s] = @ + 1]
  /\ pc' = [pc EXCEPT ![InT(s)] = "stop_lock"]
  /\ UNCHANGED <<arg, stopList, result, unsubCalls>>
  /\ UNCHANGED <<sendCond, front, mgrMu, subMu>>
  /\ UNCHANGED <<subVars, chanVars, filterVars>>
  /\ UNCHANGED <<delivered, inflight, cancelCalls, uninstCalls>>
  /\ UNCHANGED <<stopper, attachedAtCancel, attachedAtCall, cbFailed>>
  /\ UNCHANGED auxVars

\* send: return after e.stop(); the deferred unlock runs.
SendReturnStopped(s) ==
  /\ pc[InT(s)] = "send_ret"
  /\ sendLk' = [sendLk EXCEPT ![s] = NoThread]
  /\ SendReturns(s)
  /\ UNCHANGED <<arg, stopList, result, unsubCalls, mgrMu, subMu>>
  /\ UNCHANGED <<inCh, posted>>
  /\ UNCHANGED <<subVars, queueVars, filterVars, histVars>>
  /\ UNCHANGED auxVars

\* --------------------------------------------------- send stage: startOut
\* variant: the select of startOut has no case for ctx.Done()
OutDoneMissing(s) == FALSE /\ UNCHANGED vars

\* startOut: case <-ctx.Done(): return
OutDone(s) ==
  /\ pc[OutT(s)] = "select"
  /\ cancelled[s]
  /\ pc' = [pc EXCEPT ![OutT(s)] = "done"]
  /\ UNCHANGED <<arg, stopList, result, unsubCalls>>
  /\ UNCHANGED <<lockVars, subVars, chanVars, queueVars, filterVars, histVars>>
  /\ UNCHANGED auxVars

\* startOut: case <-e.sendCond:
OutWake(s) ==
  /\ pc[OutT(s)] = "select"
  /\ sendCond[s] = 1
  /\ sendCond' = [sendCond EXCEPT ![s] = 0]
  /\ pc' = [pc EXCEPT ![OutT(s)] = "out_lock"]
  /\ UNCHANGED <<arg, stopList, result, unsubCalls>>
  /\ UNCHANGED <<toSend, sendQueueLen, front>>
  /\ UNCHANGED <<lockVars, subVars, chanVars, filterVars, histVars>>
  /\ UNCHANGED auxVars

\* variant: sendLk stays locked while the callback runs
OutDequeueHoldsLock(s) ==
  /\ pc[OutT(s)] = "out_lock"
  /\ sendLk[s] = NoThread
  /\ toSend[s] # <<>>
  /\ sendLk' = [sendLk EXCEPT ![s] = OutT(s)]
  /\ front' = [front EXCEPT ![s] = Head(toSend[s])]
  /\ toSend' = [toSend EXCEPT ![s] = Tail(@)]
  /\ sendQueueLen' = [sendQueueLen EXCEPT ![s] = @ - 1]
  /\ delivered' = [delivered EXCEPT ![s] = Append(@, Head(toSend[s]))]
  /\ inflight' = [inflight EXCEPT ![s] = @ + 1]
  /\ pc' = [pc EXCEPT ![OutT(s)] = "out_wait"]
  /\ UNCHANGED <<arg, stopList, result, unsubCalls, sendCond, mgrMu, subMu>>
  /\ UNCHANGED <<subVars, chanVars, filterVars>>
  /\ UNCHANGED <<enqueued, cancelCalls, uninstCalls>>
  /\ UNCHANGED <<stopper, attachedAtCancel, attachedAtCall, cbFailed>>
  /\ UNCHANGED auxVars

\* variant: the front of the queue is delivered but left in the queue
OutDequeuePeek(s) ==
  /\ pc[OutT(s)] = "out_lock"
  /\ sendLk[s] = NoThread
  /\ toSend[s] # <<>>
  /\ front' = [front EXCEPT ![s] = Head(toSend[s])]
  /\ sendQueueLen' = [sendQueueLen EXCEPT ![s] = @ - 1]
  /\ delivered' = [delivered EXCEPT ![s] = Append(@, Head(toSend[s]))]
  /\ inflight' = [inflight EXCEPT ![s] = @ + 1]
  /\ pc' = [pc EXCEPT ![OutT(s)] = "out_wait"]
  /\ UNCHANGED <<arg, stopList, result, unsubCalls, sendCond, toSend>>
  /\ UNCHANGED <<lockVars, subVars, chanVars, filterVars>>
  /\ UNCHANGED <<enqueued, cancelCalls, uninstCalls>>
  /\ UNCHANGED <<stopper, attachedAtCancel, attachedAtCall, cbFailed>>
  /\ UNCHANGED auxVars

\* startOut: e.sendLk.Lock() (before the loop and at the end of its body);
\* front := e.toSend.Dequeue(); e.sendQueueLen--; unlock; e.out(ctx, front)
\* is invoked.
OutDequeue(s) ==
  /\ pc[OutT(s)] = "out_lock"
  /\ sendLk[s] = NoThread
  /\ toSend[s] # <<>>
  /\ front' = [front EXCEPT ![s] = Head(toSend[s])]
  /\ toSend' = [toSend EXCEPT ![s] = Tail(@)]
  /\ sendQueueLen' = [sendQueueLen EXCEPT ![s] = @ - 1]
  /\ delivered' = [delivered EXCEPT ![s] = Append(@, Head(toSend[s]))]
  /\ inflight' = [inflight EXCEPT ![s] = @ + 1]
  /\ pc' = [pc EXCEPT ![OutT(s)] = "out_wait"]
  /\ UNCHANGED <<arg, stopList, result, unsubCalls, sendCond>>
  /\ UNCHANGED <<lockVars, subVars, chanVars, filterVars>>
  /\ UNCHANGED <<enqueued, cancelCalls, uninstCalls>>
  /\ UNCHANGED <<stopper, attachedAtCancel, attachedAtCall, cbFailed>>
  /\ UNCHANGED auxVars

\* startOut: e.sendLk.Lock(); the queue is empty, the loop ends; unlock
OutDrained(s) ==
  /\ pc[OutT(s)] = "out_lock"
  /\ sendLk[s] = NoThread
  /\ toSend[s] = <<>>
  /\ pc' = [pc EXCEPT ![OutT(s)] = "select"]
  /\ UNCHANGED <<arg, stopList, result, unsubCalls>>
  /\ UNCHANGED <<lockVars, subVars, chanVars, queueVars, filterVars, histVars>>
  /\ UNCHANGED auxVars

\* startOut: e.out returned nil; e.sendLk.Lock() is next
OutCallOk(s) ==
  /\ pc[OutT(s)] = "out_wait"
  /\ inflight' = [inflight EXCEPT ![s] = @ - 1]
  /\ front' = [front EXCEPT ![s] = NoPayload]
  /\ pc' = [pc EXCEPT ![OutT(s)] = "out_lock"]
  /\ UNCHANGED <<arg, stopList, result, unsubCalls>>
  /\ UNCHANGED <<toSend, sendQueueLen, sendCond>>
  /\ UNCHANGED <<lockVars, subVars, chanVars, filterVars>>
  /\ UNCHANGED <<enqueued, delivered, cancelCalls, uninstCalls>>
  /\ UNCHANGED <<stopper, attachedAtCancel, attachedAtCall, cbFailed>>
  /\ UNCHANGED auxVars

\* startOut: e.out returned an error; e.stop() and return
OutCallErr(s) ==
  /\ pc[OutT(s)] = "out_wait"
  /\ inflight' = [inflight EXCEPT ![s] = @ - 1]
  /\ front' = [front EXCEPT ![s] = NoPayload]
  /\ cbFailed' = [cbFailed EXCEPT ![s] = TRUE]
  /\ pc' = [pc EXCEPT ![OutT(s)] = "stop_lock"]
  /\ UNCHANGED <<arg, stopList, result, unsubCalls>>
  /\ UNCHANGED <<toSend, sendQueueLen, sendCond>>
  /\ UNCHANGED <<lockVars, subVars, chanVars, filterVars>>
  /\ UNCHANGED <<enqueued, delivered, cancelCalls, uninstCalls>>
  /\ UNCHANGED <<stopper, attachedAtCancel, attachedAtCall>>
  /\ UNCHANGED auxVars

\* ------------------------------------------------------- the filter's posts
\* A filter that addFilter bound to the channel of s (f.SetSubChannel(e.in))
\* posts an item; the post blocks while the channel is full. A post may race
\* with the removal of the filter, so it is not tied to its registration.
Post(s, max) ==
  /\ posted[s] < max
  /\ Len(inCh[s]) < InCap
  /\ \E f \in Range(filters[s]) :
       \E v \in ItemsFor(f.kind, posted[s] + 1) :
         inCh' = [inCh EXCEPT ![s] = Append(@, v)]
  /\ posted' = [posted EXCEPT ![s] = @ + 1]
  /\ UNCHANGED <<pending, lastSentTipset>>
  /\ UNCHANGED <<ctlVars, lockVars, subVars, queueVars, filterVars, histVars>>
  /\ UNCHANGED auxVars

\* ----------------------------------------------------------- specification
SubscriptionStep(s, types, max) ==
  \/ StartSubscriptionFail(s)
  \/ StartSubscription(s)
  \/ SubscribeInstall(s, types)
  \/ SubscribeInstallFail(s)
  \/ SubscribeReject(s)
  \/ AddFilterLock(s)
  \/ AddFilter(s)
  \/ IngestStart(s)
  \/ IngestDone(s)
  \/ IngestReceive(s)
  \/ SendMarshalFail(s)
  \/ SendEnqueue(s)
  \/ SendOverflow(s)
  \/ SendReturnStopped(s)
  \/ OutDone(s)
  \/ OutWake(s)
  \/ OutDequeue(s)
  \/ OutDrained(s)
  \/ OutCallOk(s)
  \/ OutCallErr(s)
  \/ Post(s, max)

StopStep(t) ==
  \/ StopSubscriptionNotFound(t)
  \/ StopSubscriptionFound(t)
  \/ StopSubscriptionDelete(t)
  \/ StopLock(t)
  \/ StopAlready(t)
  \/ StopCancel(t)
  \/ StopRange(t)
  \/ StopUninstall(t)
  \/ StopReturn(t)

\* One subscription, of type logs or newPendingTransactions, and a client
\* that calls EthUnsubscribe on its id at any moment.
Next ==
  \/ SubscriptionStep(1, EventTypes \ {"newHeads"}, MaxItems)
  \/ UnsubscribeCall({1})
  \/ \E t \in Threads : StopStep(t)

Spec == Init /\ [][Next]_vars

\* The steps of the two stages of s and of the caller of EthSubscribe.
IngestStep(s) ==
  \/ IngestStart(s) \/ IngestDone(s) \/ IngestReceive(s)
  \/ SendMarshalFail(s) \/ SendEnqueue(s) \/ SendOverflow(s) \/ SendReturnStopped(s)

OutStep(s) ==
  \/ OutDone(s) \/ OutWake(s) \/ OutDequeue(s) \/ OutDrained(s)
  \/ OutCallOk(s) \/ OutCallErr(s)

AttachStep(s) == AddFilterLock(s) \/ AddFilter(s)

\* a client's first call of EthUnsubscribe
FirstUnsubscribeCall(ids) == unsubCalls = 0 /\ UnsubscribeCall(ids)

\* One logs subscription whose filter posts just enough to overflow the send
\* queue, and one client call of EthUnsubscribe.
NextFair ==
  \/ SubscriptionStep(1, {"logs"}, maxSendQueue + 1)
  \/ FirstUnsubscribeCall({1})
  \/ \E t \in Threads : StopStep(t)

\* The scheduler's fairness: a goroutine that can take a step takes one (the
\* callback returns, a lock that is free is acquired). Clients and the posting
\* filter are left free to stop.
FairSpec ==
  /\ Init /\ [][NextFair]_vars
  /\ WF_vars(IngestStep(1))
  /\ WF_vars(OutStep(1))
  /\ WF_vars(AttachStep(1))
  /\ \A t \in Threads : WF_vars(StopStep(t))

\* One newHeads subscription and one client call of EthUnsubscribe.
NextHeads ==
  \/ SubscriptionStep(1, {"newHeads"}, MaxItems)
  \/ FirstUnsubscribeCall({1})
  \/ \E t \in Threads : StopStep(t)

SpecHeads == Init /\ [][NextHeads]_vars

\* A second subscription that runs undisturbed next to the first one.
BystanderStep(s) ==
  \/ StartSubscription(s)
  \/ SubscribeInstall(s, {"logs"})
  \/ AddFilterLock(s)
  \/ AddFilter(s)
  \/ IngestStart(s)
  \/ IngestReceive(s)
  \/ SendEnqueue(s)
  \/ OutWake(s)
  \/ OutDequeue(s)
  \/ OutDrained(s)
  \/ OutCallOk(s)
  \/ Post(s, 1)

NextTwo ==
  \/ SubscriptionStep(1, {"logs"}, maxSendQueue + 1)
  \/ BystanderStep(2)
  \/ FirstUnsubscribeCall({1})
  \/ \E t \in Threads : StopStep(t)

SpecTwo == Init /\ [][NextTwo]_vars

\* -------------------------------------------------- waitForHeightProcessed
\* variant: a height equal to the head is rejected too
HeightInFutureOrHead(h, hd) == h >= hd

\* if height > e.em.chainModule.ChainReader.GetHead().Height()
HeightInFuture(h, hd) == h > hd

\* What ei.IsHeightPast(ctx, height) can return: an error, or whether the
\* index is past the height.
IsHeightPastOutcomes == {"err"} \cup (IF indexPast THEN {"true"} ELSE {"false"})

\* The call returns res; the deferred unSubscribeF runs when SubscribeUpdates
\* was called.
WaitReturn(res) ==
  /\ wfPc' = "done"
  /\ wfResult' = res
  /\ subscribed' = FALSE
  /\ unsubscribeCalls' = IF subscribed THEN unsubscribeCalls + 1 ELSE unsubscribeCalls

\* waitForHeightProcessed(ctx, height) is called; the head is read.
WaitCall ==
  /\ wfPc = "idle"
  /\ \E h \in 0..MaxHeight, hd \in 0..MaxHeight : height' = h /\ head' = hd
  /\ wfPc' = "head"
  /\ UNCHANGED <<ctxState, indexPast, subscribed, subCh, updates, wfResult>>
  /\ UNCHANGED <<checks, subscribeCalls, unsubscribeCalls>>
  /\ UNCHANGED <<coreVars, received, rangeVars, apiVars, logVars>>

\* height is above the head: "height is in the future" is returned.
WaitFuture ==
  /\ wfPc = "head"
  /\ HeightInFuture(height, head)
  /\ WaitReturn("err_future")
  /\ UNCHANGED <<height, head, ctxState, indexPast, subCh, updates>>
  /\ UNCHANGED <<checks, subscribeCalls>>
  /\ UNCHANGED <<coreVars, received, rangeVars, apiVars, logVars>>

\* height is not above the head: context.WithTimeout(ctx, eventReadTimeout)
WaitBegin ==
  /\ wfPc = "head"
  /\ ~HeightInFuture(height, head)
  /\ wfPc' = "check1"
  /\ UNCHANGED <<height, head, ctxState, indexPast, subscribed, subCh, updates>>
  /\ UNCHANGED <<wfResult, checks, subscribeCalls, unsubscribeCalls>>
  /\ UNCHANGED <<coreVars, received, rangeVars, apiVars, logVars>>

\* One call of IsHeightPast at position at: an error is returned wrapped, true
\* returns nil, false goes on to position next.
WaitCheck(at, next) ==
  /\ wfPc = at
  /\ \E o \in IsHeightPastOutcomes :
       /\ checks' = Append(checks, o)
       /\ CASE o = "err" -> WaitReturn("err_check")
            [] o = "true" -> WaitReturn("nil")
            [] o = "false" -> /\ wfPc' = next
                              /\ UNCHANGED <<wfResult, subscribed, unsubscribeCalls>>
  /\ UNCHANGED <<height, head, ctxState, indexPast, subCh, updates, subscribeCalls>>
  /\ UNCHANGED <<coreVars, received, rangeVars, apiVars, logVars>>

\* variant: the outcome of the check before subscribing is not looked at
WaitFirstCheckIgnored ==
  /\ wfPc = "check1"
  /\ \E o \in IsHeightPastOutcomes : checks' = Append(checks, o)
  /\ wfPc' = "subscribe"
  /\ UNCHANGED <<height, head, ctxState, indexPast, subscribed, subCh, updates>>
  /\ UNCHANGED <<wfResult, subscribeCalls, unsubscribeCalls>>
  /\ UNCHANGED <<coreVars, received, rangeVars, apiVars, logVars>>

\* the check before subscribing
WaitFirstCheck == WaitCheck("check1", "subscribe")

\* subCh, unSubscribeF := ei.SubscribeUpdates()
WaitSubscribe ==
  /\ wfPc = "subscribe"
  /\ subscribed' = TRUE
  /\ subCh' = 0
  /\ subscribeCalls' = subscribeCalls + 1
  /\ wfPc' = "check2"
  /\ UNCHANGED <<height, head, ctxState, indexPast, updates, wfResult>>
  /\ UNCHANGED <<checks, unsubscribeCalls>>
  /\ UNCHANGED <<coreVars, received, rangeVars, apiVars, logVars>>

\* variant: the loop is entered without the check after subscribing
WaitSecondCheckSkipped ==
  /\ wfPc = "check2"
  /\ wfPc' = "loop"
  /\ UNCHANGED <<height, head, ctxState, indexPast, subscribed, subCh, updates>>
  /\ UNCHANGED <<wfResult, checks, subscribeCalls, unsubscribeCalls>>
  /\ UNCHANGED <<coreVars, received, rangeVars, apiVars, logVars>>

\* the check after subscribing
WaitSecondCheck == WaitCheck("check2", "loop")

\* select: case <-subCh
WaitNotified ==
  /\ wfPc = "loop"
  /\ subCh > 0
  /\ subCh' = subCh - 1
  /\ wfPc' = "recheck"
  /\ UNCHANGED <<height, head, ctxState, indexPast, subscribed, updates>>
  /\ UNCHANGED <<wfResult, checks, subscribeCalls, unsubscribeCalls>>
  /\ UNCHANGED <<coreVars, received, rangeVars, apiVars, logVars>>

\* the check after a notification
WaitRecheck == WaitCheck("recheck", "loop")

\* variant: the select of the loop has no case for ctx.Done()
WaitCtxDoneMissing == FALSE /\ UNCHANGED vars

\* select: case <-ctx.Done(): return ctx.Err()
WaitCtxDone ==
  /\ wfPc = "loop"
  /\ ctxState # "live"
  /\ WaitReturn(IF ctxState = "timeout" THEN "err_deadline" ELSE "err_cancelled")
  /\ UNCHANGED <<height, head, ctxState, indexPast, subCh, updates>>
  /\ UNCHANGED <<checks, subscribeCalls>>
  /\ UNCHANGED <<coreVars, received, rangeVars, apiVars, logVars>>

\* eventReadTimeout expires on the context the call made
WaitTimeout ==
  /\ wfPc \in {"check1", "subscribe", "check2", "loop", "recheck"}
  /\ ctxState = "live"
  /\ ctxState' = "timeout"
  /\ UNCHANGED <<wfPc, height, head, indexPast, subscribed, subCh, updates>>
  /\ UNCHANGED <<wfResult, checks, subscribeCalls, unsubscribeCalls>>
  /\ UNCHANGED <<coreVars, received, rangeVars, apiVars, logVars>>

\* the caller's context is cancelled
WaitCancel ==
  /\ wfPc # "done"
  /\ ctxState = "live"
  /\ ctxState' = "cancelled"
  /\ UNCHANGED <<wfPc, height, head, indexPast, subscribed, subCh, updates>>
  /\ UNCHANGED <<wfResult, checks, subscribeCalls, unsubscribeCalls>>
  /\ UNCHANGED <<coreVars, received, rangeVars, apiVars, logVars>>

\* The event index makes an update, which may bring it past the height, and
\* notifies the channels subscribed to it.
IndexUpdate(reaches) ==
  /\ updates < MaxUpdates
  /\ updates' = updates + 1
  /\ indexPast' = (indexPast \/ reaches)
  /\ subCh' = IF subscribed THEN subCh + 1 ELSE subCh
  /\ UNCHANGED <<wfPc, height, head, ctxState, subscribed, wfResult>>
  /\ UNCHANGED <<checks, subscribeCalls, unsubscribeCalls>>
  /\ UNCHANGED <<coreVars, received, rangeVars, apiVars, logVars>>

\* the steps of the call itself
WaitStep ==
  \/ WaitFuture \/ WaitBegin \/ WaitFirstCheck \/ WaitSubscribe
  \/ WaitSecondCheck \/ WaitNotified \/ WaitRecheck \/ WaitCtxDone

NextWait ==
  \/ WaitCall
  \/ WaitStep
  \/ WaitTimeout
  \/ WaitCancel
  \/ \E reaches \in BOOLEAN : IndexUpdate(reaches)

WaitSpec == Init /\ [][NextWait]_vars

\* the goroutine running the call is scheduled; no timer or cancellation is
\* forced to fire
WaitFairSpec == WaitSpec /\ WF_vars(WaitStep)

\* the goroutine is scheduled and the timer of the call's context fires
WaitTimedSpec == WaitSpec /\ WF_vars(WaitStep) /\ WF_vars(WaitTimeout)

\* ------------------------------------------------------------------ helpers
IsPrefix(a, b) == Len(a) <= Len(b) /\ SubSeq(b, 1, Len(a)) = a

StopPcs == {"stop_lock", "stop_cs", "stop_range", "stop_loop"}

\* the thread t is inside a call of stop() on the subscription s
InStop(t, s) == arg[t] = s /\ pc[t] \in StopPcs

\* uninstallFilter has been called on every filter that was attached to s when
\* it was cancelled
TornDown(s) ==
  \A i \in 1..Len(attachedAtCancel[s]) : uninstCalls[attachedAtCancel[s][i].id] >= 1

\* the filter f is in the hands of the stop() call that cancelled s and has
\* not finished its loop
BeingTornDown(s, f) ==
  \E t \in Threads :
    /\ arg[t] = s /\ stopper[s] = t
    /\ \/ pc[t] = "stop_range"
       \/ pc[t] = "stop_loop" /\ f \in Range(stopList[t])

\* every filter attached to s when it was cancelled has had uninstallFilter
\* called on it or is left in the loop of the stop() that cancelled s
TornDownOrInHand(s) ==
  \A f \in Range(attachedAtCancel[s]) : uninstCalls[f.id] >= 1 \/ BeingTornDown(s, f)

C2_DeliveryIsFifo ==
  \A s \in SubIDs : IsPrefix(delivered[s], enqueued[s]) /\ inflight[s] <= 1

C2_Witness ==
  \E s \in SubIDs : Len(delivered[s]) >= 2 /\ Len(enqueued[s]) > Len(delivered[s])

C4_LaterSendIsNoOp ==
  [][\A s \in SubIDs :
       (stopper[s] = InT(s) /\ pc[InT(s)] = "send_lock" /\ pc'[InT(s)] # "send_lock")
         => (toSend'[s] = toSend[s] /\ sendQueueLen'[s] = sendQueueLen[s])]_vars

\* C6 as stated: the outbound queue never holds more than maxSendQueue
\* payloads.
C6_QueueAtMostCap ==
  \A s \in SubIDs : Len(toSend[s]) <= maxSendQueue

\* C6 amended: while the subscription is not cancelled its outbound queue
\* holds at most maxSendQueue + 1 payloads, and at most maxSendQueue unless a
\* call of send() holds sendLk between its enqueue and its call of stop().
C6_QueueWithinCapUntilCancelled ==
  \A s \in SubIDs :
    ~cancelled[s] =>
      /\ Len(toSend[s]) <= maxSendQueue + 1
      /\ sendLk[s] = NoThread => Len(toSend[s]) <= maxSendQueue

C6_Witness ==
  \E s \in SubIDs : ~cancelled[s] /\ Len(toSend[s]) = maxSendQueue + 1

\* C7 as stated: when StopSubscription(id) has returned nil, the id is not
\* registered, the token is cancelled and uninstallFilter has been called on
\* every filter that was attached before the call.
C7_StopSubscriptionTearsDown ==
  (pc[UnsubT] = "idle" /\ result[UnsubT] = "true") =>
     /\ arg[UnsubT] \notin subs
     /\ cancelled[arg[UnsubT]]
     /\ \A f \in Range(attachedAtCall[UnsubT]) : uninstCalls[f.id] >= 1

\* C7 amended: when StopSubscription(id) has returned nil, the id is not
\* registered, the token is cancelled, and uninstallFilter has been called on
\* every filter that was attached before the call, or the concurrent stop()
\* that cancelled the subscription first has it left to uninstall in its loop.
C7_StopSubscriptionTearsDownOrRaces ==
  (pc[UnsubT] = "idle" /\ result[UnsubT] = "true") =>
     /\ arg[UnsubT] \notin subs
     /\ cancelled[arg[UnsubT]]
     /\ quit[arg[UnsubT]] = "nil"
     /\ \A f \in Range(attachedAtCall[UnsubT]) :
          uninstCalls[f.id] >= 1 \/ BeingTornDown(arg[UnsubT], f)
     /\ stopper[arg[UnsubT]] = UnsubT =>
          \A f \in Range(attachedAtCall[UnsubT]) : uninstCalls[f.id] >= 1

C7_Witness ==
  /\ pc[UnsubT] = "idle" /\ result[UnsubT] = "true"
  /\ stopper[arg[UnsubT]] = UnsubT
  /\ Len(attachedAtCall[UnsubT]) = 1
  /\ uninstCalls[arg[UnsubT]] = 1

\* the subscription s was registered and has been deleted from the registry
Deleted(s) == quit[s] # "unborn" /\ s \notin subs

\* C8: a StopSubscription(id) that does not find the id returns the error and
\* changes neither the registry nor any subscription or filter; an id that
\* was deleted is not registered again, so a second StopSubscription of it
\* does not find it; EthUnsubscribe answers true when the id was found and
\* false when it was not.
C8_StopOfUnknownIdChangesNothing ==
  /\ [][\A t \in Threads :
          (pc[t] = "unsub_lock" /\ pc'[t] # "unsub_lock" /\ arg[t] \notin subs) =>
             /\ pc'[t] = AfterUnsub(t)
             /\ t = UnsubT => result'[t] = "false"
             /\ UNCHANGED <<subVars, chanVars, queueVars, filterVars>>
             /\ UNCHANGED <<cancelCalls, uninstCalls, lockVars>>]_vars
  /\ [][\A s \in SubIDs : Deleted(s) => s \notin subs']_vars
  /\ [][(pc[UnsubT] # "idle" /\ pc'[UnsubT] = "idle") =>
          (result'[UnsubT] = IF pc[UnsubT] = "unsub_del" THEN "true" ELSE "false")]_vars

C8_Witness ==
  /\ pc[UnsubT] = "idle" /\ result[UnsubT] = "false"
  /\ Deleted(arg[UnsubT])

\* C9: however many calls of stop() run on a subscription, and however they
\* interleave, quit() is invoked at most once and uninstallFilter at most
\* once per filter; when no call of stop() is running on a cancelled
\* subscription, quit() has been invoked exactly once and uninstallFilter
\* exactly once on every filter that was attached when it was cancelled.
C9_StopIsIdempotent ==
  \A s \in SubIDs :
    /\ cancelCalls[s] <= 1
    /\ uninstCalls[s] <= 1
    /\ (cancelled[s] /\ \A t \in Threads : ~InStop(t, s)) =>
         /\ cancelCalls[s] = 1
         /\ \A i \in 1..Len(attachedAtCancel[s]) :
              uninstCalls[attachedAtCancel[s][i].id] = 1

\* all three callers of stop() have called it on the same subscription
C9_Witness ==
  \E s \in SubIDs :
    /\ stopper[s] = InT(s) /\ pc[InT(s)] \notin StopPcs
    /\ cbFailed[s] /\ pc[OutT(s)] = "done"
    /\ pc[UnsubT] = "idle" /\ result[UnsubT] = "true" /\ arg[UnsubT] = s
    /\ Len(attachedAtCancel[s]) = 1
    /\ uninstCalls[s] = 1

\* the step is taken by a thread that is stopping the subscription a
StopsSub(a) ==
  \E t \in Threads :
    /\ arg[t] = a
    /\ pc[t] \in StopPcs \cup {"unsub_lock", "unsub_del"}
    /\ pc'[t] # pc[t] \/ stopList'[t] # stopList[t]

\* the filters of b that are registered with their manager
Installed(b) == Range(filters[b]) \cap mgrFilters

\* C5: a step of stop() or StopSubscription on one subscription, whatever
\* triggered it, leaves every other subscription as it was: its outbound
\* queue and counter, its attached filters and their registration, its token
\* and quit, its registry entry and the position of its two stages; and no
\* thread working on one subscription ever holds a lock of another.
C5_StopLeavesOthersAlone ==
  /\ [][\A a, b \in SubIDs :
          (a # b /\ StopsSub(a)) =>
             /\ toSend'[b] = toSend[b]
             /\ sendQueueLen'[b] = sendQueueLen[b]
             /\ sendCond'[b] = sendCond[b]
             /\ inCh'[b] = inCh[b]
             /\ filters'[b] = filters[b]
             /\ Installed(b)' = Installed(b)
             /\ cancelled'[b] = cancelled[b]
             /\ quit'[b] = quit[b]
             /\ (b \in subs') = (b \in subs)
             /\ pc'[InT(b)] = pc[InT(b)]
             /\ pc'[OutT(b)] = pc[OutT(b)]
             /\ delivered'[b] = delivered[b]]_vars
  /\ [](\A s \in SubIDs :
          /\ subMu[s] # NoThread => arg[subMu[s]] = s
          /\ sendLk[s] # NoThread => arg[sendLk[s]] = s)

\* the first subscription is stopped and removed while the second one, still
\* registered with its filter installed, is delivering a payload
C5_Witness ==
  /\ cancelled[1] /\ Deleted(1) /\ uninstCalls[1] = 1
  /\ \A t \in Threads : ~InStop(t, 1)
  /\ 2 \in subs /\ ~cancelled[2] /\ Installed(2) # {}
  /\ pc[OutT(2)] = "out_wait"

\* C10: once the token of a subscription is cancelled, its ingest stage and
\* its delivery stage both terminate.
C10_StagesTerminate ==
  \A s \in SubIDs :
    cancelled[s] ~> (pc[InT(s)] = "done" /\ pc[OutT(s)] = "done")

C10_Witness ==
  /\ cancelled[1] /\ pc[InT(1)] = "done" /\ pc[OutT(1)] = "done"
  /\ stopper[1] = UnsubT
  /\ delivered[1] # <<>>

\* C11: when EthSubscribe has returned the error of a failed Install or of
\* parseEthTopics, the subscription is stopped (token cancelled, quit
\* cleared), it is not in the registry, it has no attached filter and no
\* filter installed for it is registered with a manager.
C11_InstallFailureCleansUp ==
  \A s \in SubIDs :
    (pc[SubT(s)] = "done" /\ result[SubT(s)] = "err") =>
       /\ s \notin subs
       /\ cancelled[s] /\ quit[s] = "nil"
       /\ filters[s] = <<>>
       /\ \A f \in mgrFilters : f.id # s

\* EthSubscribe returned the install error and its own EthUnsubscribe is the
\* one that cancelled the subscription
C11_Witness ==
  /\ pc[SubT(1)] = "done" /\ result[SubT(1)] = "err"
  /\ stopper[1] = SubT(1)
  /\ Deleted(1)

\* the outcome of the latest IsHeightPast call
LastCheck == IF checks = <<>> THEN "none" ELSE checks[Len(checks)]

\* C12: the call never misses an update of the index. While it is blocked in
\* its loop and the index is past the height, a notification is waiting on
\* subCh; once the index is past the height the call returns, without any
\* timer or cancellation being needed for that; and a call that returns while
\* its context is live and no IsHeightPast call failed returns nil.
C12_NoMissedUpdate ==
  /\ []((wfPc = "loop" /\ indexPast) => subCh > 0)
  /\ ((wfPc \notin {"idle", "done"} /\ indexPast) ~> (wfPc = "done"))
  /\ []((wfPc = "done" /\ ctxState = "live" /\ LastCheck # "err"
           /\ wfResult # "err_future") => wfResult = "nil")

\* the index came past the height while the call was blocked in its loop, and
\* the call woke up on the notification and returned nil
C12_Witness ==
  /\ wfPc = "done" /\ wfResult = "nil" /\ ctxState = "live"
  /\ checks = <<"false", "false", "true">>

\* C13: when the first IsHeightPast check returns true the call has returned
\* nil after that one check, and SubscribeUpdates was never called.
C13_PastAtFirstCheckReturnsAtOnce ==
  (checks # <<>> /\ checks[1] = "true") =>
     /\ wfPc = "done" /\ wfResult = "nil"
     /\ Len(checks) = 1
     /\ subscribeCalls = 0 /\ ~subscribed

C13_Witness ==
  /\ wfPc = "done" /\ checks = <<"true">> /\ height <= head /\ updates >= 1

\* C14: the call returns. It returns nil only after an IsHeightPast check
\* that returned true; it returns the error of the context only when the
\* timeout has expired or the caller has cancelled; it returns the wrapped
\* error of IsHeightPast exactly when its latest check failed.
C14_AlwaysReturns ==
  /\ (wfPc = "head") ~> (wfPc = "done")
  /\ [](wfPc = "done" =>
          /\ wfResult \in {"nil", "err_future", "err_check", "err_deadline",
                           "err_cancelled"}
          /\ (wfResult = "nil") = (LastCheck = "true")
          /\ (wfResult = "err_check") = (LastCheck = "err")
          /\ wfResult = "err_deadline" => ctxState = "timeout"
          /\ wfResult = "err_cancelled" => ctxState = "cancelled")
  /\ [](wfPc # "done" => wfResult = "none")

\* the call blocked in its loop and returned when the timeout expired
C14_Witness ==
  /\ wfPc = "done" /\ wfResult = "err_deadline"
  /\ checks = <<"false", "false">> /\ ~indexPast

\* C15: the call returns "height is in the future" exactly when height is
\* strictly above the head, and then neither IsHeightPast nor
\* SubscribeUpdates has been called; with height at or below the head the
\* call goes on to its first check.
C15_FutureHeightFailsFast ==
  /\ wfPc = "done" => ((wfResult = "err_future") = (height > head))
  /\ wfResult = "err_future" => (checks = <<>> /\ subscribeCalls = 0)
  /\ wfPc \in {"check1", "subscribe", "check2", "loop", "recheck"} => height <= head

C15_Witness ==
  /\ wfPc = "done" /\ wfResult = "err_future" /\ height = head + 1

\* the block records among the payloads enqueued for s, in order
BlocksEnqueued(s) == SelectSeq(enqueued[s], LAMBDA p : p.kind = "block")

\* the ingest stage of s has finished with every tipset it received
IngestSettled(s) == pc[InT(s)] \in {"select", "done"} /\ pending[s] = <<>>

\* number of block records enqueued for the notifications numbered in ns
RecordsFor(s, ns) ==
  Cardinality({i \in 1..Len(enqueued[s]) :
                 enqueued[s][i].kind = "block" /\ enqueued[s][i].n \in ns})

\* C16 as stated: once the ingest stage has processed two consecutive TipSet
\* notifications with the same parent key, exactly one block record has been
\* enqueued for the two.
C16_SameParentGivesExactlyOne ==
  \A s \in SubIDs :
    IngestSettled(s) =>
      \A i \in 1..(Len(received[s]) - 1) :
        (received[s][i].height > 0 /\ received[s][i + 1].height > 0
           /\ received[s][i].parents = received[s][i + 1].parents) =>
          RecordsFor(s, {received[s][i].n, received[s][i + 1].n}) = 1

\* C16 amended: two consecutive TipSet notifications with the same parent key
\* give at most one enqueued block record, and none for the second when the
\* first one's record was enqueued; a TipSet above height 0 whose parent key
\* equals lastSentTipset is skipped; and lastSentTipset changes only when
\* send() returns for a block record (enqueued or dropped by send), to that
\* record's parent key.
C16_SameParentGivesAtMostOne ==
  /\ [](\A s \in SubIDs :
          IngestSettled(s) =>
               \A i \in 1..(Len(received[s]) - 1) :
                 (received[s][i].height > 0 /\ received[s][i + 1].height > 0
                    /\ received[s][i].parents = received[s][i + 1].parents) =>
                   /\ RecordsFor(s, {received[s][i].n, received[s][i + 1].n}) <= 1
                   /\ RecordsFor(s, {received[s][i].n}) = 1 =>
                        RecordsFor(s, {received[s][i + 1].n}) = 0)
  /\ [][\A s \in SubIDs :
          (received'[s] # received[s] /\ Head(inCh[s]).height > 0
             /\ lastSentTipset[s] # NoKey
             /\ Head(inCh[s]).parents = lastSentTipset[s]) =>
            /\ pending'[s] = <<>> /\ pc'[InT(s)] = "select"
            /\ UNCHANGED <<lastSentTipset, enqueued, toSend>>]_vars
  /\ [][\A s \in SubIDs :
          /\ lastSentTipset'[s] # lastSentTipset[s] =>
               /\ pc[InT(s)] \in {"send_lock", "send_ret"}
               /\ pc'[InT(s)] \notin {"send_lock", "send_ret", "stop_lock"}
               /\ Head(pending[s]).kind = "block"
               /\ lastSentTipset'[s] = Head(pending[s]).key
          /\ (pc[InT(s)] \in {"send_lock", "send_ret"}
                /\ pc'[InT(s)] = "select" /\ Head(pending[s]).kind = "block") =>
               lastSentTipset'[s] = Head(pending[s]).key]_vars

\* two consecutive notifications with parent A were processed: the first one's
\* record was enqueued and the second one was skipped
C16_Witness ==
  /\ IngestSettled(1)
  /\ Len(received[1]) = 2
  /\ received[1][1].parents = "A" /\ received[1][1].ok
  /\ received[1][2].parents = "A" /\ received[1][2].ok
  /\ Len(BlocksEnqueued(1)) = 1 /\ BlocksEnqueued(1)[1].n = received[1][1].n
  /\ lastSentTipset[1] = "A"

\* C17 as stated: no block record is enqueued for a parent tipset at height 0,
\* and lastSentTipset is never set to its key.
C17_ParentAtHeightZeroSkipped ==
  \A s \in SubIDs :
    /\ \A i \in 1..Len(enqueued[s]) : enqueued[s][i].key # GenesisKey
    /\ lastSentTipset[s] # GenesisKey

\* C17 amended: a TipSet notification whose own height is 0 produces no block
\* record: nothing is enqueued for it and lastSentTipset is unchanged; the
\* height of the parent plays no part.
C17_TipSetAtHeightZeroSkipped ==
  /\ [][\A s \in SubIDs :
          (received'[s] # received[s] /\ Head(inCh[s]).height = 0) =>
            /\ pending'[s] = <<>> /\ pc'[InT(s)] = "select"
            /\ UNCHANGED <<lastSentTipset, enqueued, toSend, sendQueueLen>>]_vars
  /\ [](\A s \in SubIDs :
          \A i \in 1..Len(received[s]) :
            received[s][i].height = 0 => RecordsFor(s, {received[s][i].n}) = 0)

\* the tipset at height 0 was skipped and the tipset after it, whose parent is
\* the tipset at height 0, gave a block record
C17_Witness ==
  /\ IngestSettled(1)
  /\ Len(received[1]) = 2
  /\ received[1][1].height = 0
  /\ received[1][2].parents = GenesisKey
  /\ Len(BlocksEnqueued(1)) = 1 /\ BlocksEnqueued(1)[1].n = received[1][2].n
  /\ lastSentTipset[1] = GenesisKey


\* ---------------------------------------------------------- parseBlockRange
\* abi.ChainEpoch is an int64 and EthUint64 a uint64; the model keeps the two
\* widths equal and scales them down to EpochBits bits.
EpochBits == 8

Pow2(n) == 2 ^ n

Str(s) == [nil |-> FALSE, s |-> s]

LatestStr == <<"l", "a", "t", "e", "s", "t">>
EarliestStr == <<"e", "a", "r", "l", "i", "e", "s", "t">>
HexPrefix == <<"0", "x">>

HasPrefix(s, prefix) ==
  /\ Len(s) >= Len(prefix)
  /\ SubSeq(s, 1, Len(prefix)) = prefix

LowerHexDigits == <<"0", "1", "2", "3", "4", "5", "6", "7", "8", "9",
                    "a", "b", "c", "d", "e", "f">>
UpperHexDigits == <<"0", "1", "2", "3", "4", "5", "6", "7", "8", "9",
                    "A", "B", "C", "D", "E", "F">>

\* value of one hexadecimal digit, -1 for any other character
HexDigitValue(c) ==
  IF \E i \in 1..16 : LowerHexDigits[i] = c
  THEN (CHOOSE i \in 1..16 : LowerHexDigits[i] = c) - 1
  ELSE IF \E i \in 1..16 : UpperHexDigits[i] = c
       THEN (CHOOSE i \in 1..16 : UpperHexDigits[i] = c) - 1
       ELSE -1

\* strconv.ParseUint(s, 16, EpochBits) continued from acc: -1 on a character
\* that is no digit and on a value that does not fit the unsigned width
RECURSIVE ParseUintFrom(_, _)
ParseUintFrom(s, acc) ==
  IF s = <<>> THEN acc
  ELSE LET d == HexDigitValue(Head(s))
           n == acc * 16 + d
       IN IF d < 0 \/ n >= Pow2(EpochBits) THEN -1
          ELSE ParseUintFrom(Tail(s), n)

\* types.EthUint64FromHex: the unsigned value of the digits after the prefix,
\* -1 for an error
EthUint64FromHex(s) ==
  LET digits == IF HasPrefix(s, HexPrefix) \/ HasPrefix(s, <<"0", "X">>)
                THEN SubSeq(s, 3, Len(s)) ELSE s
  IN IF digits = <<>> THEN -1 ELSE ParseUintFrom(digits, 0)

\* abi.ChainEpoch(epoch): the unsigned value reinterpreted as a signed one
ToChainEpoch(u) == IF u >= Pow2(EpochBits - 1) THEN u - Pow2(EpochBits) ELSE u

RangeFail(msg) == [minHeight |-> 0, maxHeight |-> 0, err |-> msg]

\* lines 347-360 and 362-376: one bound, where "latest" resolves to dflt
ResolveBlock(b, dflt, notHex) ==
  IF b.nil \/ b.s = LatestStr \/ Len(b.s) = 0 THEN [err |-> "nil", h |-> dflt]
  ELSE IF b.s = EarliestStr THEN [err |-> "nil", h |-> 0]
  ELSE IF ~HasPrefix(b.s, HexPrefix) THEN [err |-> notHex, h |-> 0]
  ELSE IF EthUint64FromHex(b.s) < 0 THEN [err |-> "invalid epoch", h |-> 0]
  ELSE [err |-> "nil", h |-> ToChainEpoch(EthUint64FromHex(b.s))]

ResolveFrom(hv, fb) == ResolveBlock(fb, hv, "FromBlock is not a hex")
ResolveTo(tb) == ResolveBlock(tb, -1, "ToBlock is not a hex")

\* lines 378-396
ValidateRangeNoOrder(hv, mn, mx, mr) ==
  IF mn = -1 /\ mx > 0
  THEN IF mx - hv > mr THEN RangeFail("to block is too far in the future")
       ELSE [minHeight |-> mn, maxHeight |-> mx, err |-> "nil"]
  ELSE IF mn >= 0 /\ mx = -1
  THEN IF hv - mn > mr THEN RangeFail("from block is too far in the past")
       ELSE [minHeight |-> mn, maxHeight |-> mx, err |-> "nil"]
  ELSE IF mn >= 0 /\ mx >= 0
  THEN IF mx - mn > mr THEN RangeFail("range is too large")
       ELSE [minHeight |-> mn, maxHeight |-> mx, err |-> "nil"]
  ELSE [minHeight |-> mn, maxHeight |-> mx, err |-> "nil"]
ValidateRange(hv, mn, mx, mr) ==
  IF mn = -1 /\ mx > 0
  THEN IF mx - hv > mr THEN RangeFail("to block is too far in the future")
       ELSE [minHeight |-> mn, maxHeight |-> mx, err |-> "nil"]
  ELSE IF mn >= 0 /\ mx = -1
  THEN IF hv - mn > mr THEN RangeFail("from block is too far in the past")
       ELSE [minHeight |-> mn, maxHeight |-> mx, err |-> "nil"]
  ELSE IF mn >= 0 /\ mx >= 0
  THEN IF mn > mx THEN RangeFail("to block must be after from block")
       ELSE IF mx - mn > mr THEN RangeFail("range is too large")
       ELSE [minHeight |-> mn, maxHeight |-> mx, err |-> "nil"]
  ELSE [minHeight |-> mn, maxHeight |-> mx, err |-> "nil"]

parseBlockRange(hv, fb, tb, mr) ==
  LET f == ResolveFrom(hv, fb)
      t == ResolveTo(tb)
  IN IF f.err # "nil" THEN RangeFail(f.err)
     ELSE IF t.err # "nil" THEN RangeFail(t.err)
     ELSE ValidateRange(hv, f.h, t.h, mr)

\* the block parameters a client may send
BlockParams ==
  { NilPtr, Str(<<>>), Str(LatestStr), Str(EarliestStr),
    Str(<<"0", "x", "5">>), Str(<<"0", "x", "0", "a">>),
    Str(<<"0", "x", "0", "5">>), Str(<<"0", "x", "6", "4">>),
    Str(<<"0", "x", "7", "F">>), Str(<<"0", "x", "8", "0">>),
    Str(<<"0", "x", "f", "f">>), Str(<<"0", "x", "1", "0", "0">>),
    Str(<<"0", "x">>), Str(<<"0", "x", "g">>), Str(<<"0", "X", "5">>),
    Str(<<"5">>) }
Heaviests == {0, 5, 100}
MaxRanges == {0, 50}

\* a call of parseBlockRange with arguments drawn from the sets above
RangeInit ==
  /\ WaitInit
  /\ SubInit
  /\ disable = FALSE
  /\ indexEnabled = TRUE
  /\ ApiIdle
  /\ LogIdle
  /\ prPc = "call"
  /\ heaviest \in Heaviests
  /\ fromBlock \in BlockParams
  /\ toBlock \in BlockParams
  /\ maxRange \in MaxRanges
  /\ minHeight = 0
  /\ maxHeight = 0
  /\ prErr = "none"

ParseBlockRange ==
  /\ prPc = "call"
  /\ LET r == parseBlockRange(heaviest, fromBlock, toBlock, maxRange)
     IN /\ minHeight' = r.minHeight
        /\ maxHeight' = r.maxHeight
        /\ prErr' = r.err
  /\ prPc' = "done"
  /\ UNCHANGED <<heaviest, fromBlock, toBlock, maxRange>>
  /\ UNCHANGED <<coreVars, waitVars, received, apiVars, logVars>>

NextRange == ParseBlockRange

RangeSpec == RangeInit /\ [][NextRange]_vars


\* ------------------------------------------------- claims on parseBlockRange
\* the two bounds resolved without an error
BothResolved ==
  /\ ResolveFrom(heaviest, fromBlock).err = "nil"
  /\ ResolveTo(toBlock).err = "nil"
ResolvedMin == ResolveFrom(heaviest, fromBlock).h
ResolvedMax == ResolveTo(toBlock).h

RangeErrors == { "to block is too far in the future",
                 "from block is too far in the past",
                 "to block must be after from block",
                 "range is too large" }

\* C19: whenever the resolved minimum and maximum are both non-negative and
\* the minimum is above the maximum, parseBlockRange returns the error of an
\* inverted range with both heights 0; so it does for heaviest 100, from
\* "0x0a", to "0x05" and maxRange 50.
C19_InvertedRangeRejected ==
  prPc = "done" =>
    /\ (BothResolved /\ ResolvedMin >= 0 /\ ResolvedMax >= 0
        /\ ResolvedMin > ResolvedMax)
         => /\ prErr = "to block must be after from block"
            /\ minHeight = 0
            /\ maxHeight = 0
    /\ (heaviest = 100 /\ fromBlock = Str(<<"0", "x", "0", "a">>)
        /\ toBlock = Str(<<"0", "x", "0", "5">>) /\ maxRange = 50)
         => /\ prErr \in RangeErrors
            /\ minHeight = 0
            /\ maxHeight = 0

C19_Witness ==
  /\ prPc = "done"
  /\ heaviest = 100
  /\ fromBlock = Str(<<"0", "x", "0", "a">>)
  /\ toBlock = Str(<<"0", "x", "0", "5">>)
  /\ maxRange = 50
  /\ prErr = "to block must be after from block"

\* the bound is nil, empty or "latest"
IsLatest(b) == b.nil \/ Len(b.s) = 0 \/ b.s = LatestStr

\* the heights the mapping of the bounds gives, a hex height standing for the
\* value it denotes
MappedMin ==
  IF IsLatest(fromBlock) THEN heaviest
  ELSE IF fromBlock.s = EarliestStr THEN 0
  ELSE EthUint64FromHex(fromBlock.s)
MappedMax ==
  IF IsLatest(toBlock) THEN -1
  ELSE IF toBlock.s = EarliestStr THEN 0
  ELSE EthUint64FromHex(toBlock.s)

\* C18: on success parseBlockRange returns minHeight = heaviest for a from that
\* is nil, empty or "latest", 0 for "earliest" and the parsed value for a hex
\* height, and maxHeight = -1 for a to that is nil, empty or "latest", 0 for
\* "earliest" and the parsed value for a hex height; (100, "0x5", "0x0a", 50)
\* gives (5, 10, nil) and (100, nil, nil, 50) gives (100, -1, nil).
C18_SuccessMapping ==
  prPc = "done" =>
    /\ prErr = "nil" => minHeight = MappedMin /\ maxHeight = MappedMax
    /\ (heaviest = 100 /\ fromBlock = Str(<<"0", "x", "5">>)
        /\ toBlock = Str(<<"0", "x", "0", "a">>) /\ maxRange = 50)
         => prErr = "nil" /\ minHeight = 5 /\ maxHeight = 10
    /\ (heaviest = 100 /\ fromBlock = NilPtr /\ toBlock = NilPtr
        /\ maxRange = 50)
         => prErr = "nil" /\ minHeight = 100 /\ maxHeight = -1

\* the span of the requested range: up to the head when the to-bound is
\* open-ended, between the two resolved heights otherwise
Span ==
  IF IsLatest(toBlock) THEN heaviest - ResolvedMin
  ELSE ResolvedMax - ResolvedMin
Inverted == ~IsLatest(toBlock) /\ ResolvedMin > ResolvedMax

\* C20: parseBlockRange returns an error whenever the span exceeds maxRange
\* (max - min when both bounds are resolved heights, heaviest - min when the
\* to-bound is open-ended), and it never rejects a range that is not inverted
\* and whose span is at most maxRange.
C20_RangeLimit ==
  (prPc = "done" /\ BothResolved) =>
    /\ Span > maxRange => prErr \in RangeErrors
    /\ (~Inverted /\ Span <= maxRange) => prErr = "nil"


\* ------------------------------------------------------ ethLogFromEvent
\* the number of entries of an event
MaxEntries == 3

\* strings as the sequences of their bytes
KeyT1 == <<116, 49>>
KeyT2 == <<116, 50>>
KeyT3 == <<116, 51>>
KeyT4 == <<116, 52>>
KeyD == <<100>>

\* a <= b for Go strings: byte-wise, a proper prefix being smaller
RECURSIVE StrLeq(_, _)
StrLeq(a, b) ==
  IF a = <<>> THEN TRUE
  ELSE IF b = <<>> THEN FALSE
  ELSE IF Head(a) < Head(b) THEN TRUE
  ELSE IF Head(a) > Head(b) THEN FALSE
  ELSE StrLeq(Tail(a), Tail(b))

\* len(entry.Key) == 2 && "t1" <= entry.Key && entry.Key <= "t4"
IsTopicKey(k) == Len(k) = 2 /\ StrLeq(KeyT1, k) /\ StrLeq(k, KeyT4)

EmptyHash == [len |-> 32, v |-> "zero"]

\* for len(topics) <= idx { topics = append(topics, types.EthHash{}) }
RECURSIVE ExtendTopics(_, _)
ExtendTopics(topics, idx) ==
  IF Len(topics) <= idx THEN ExtendTopics(Append(topics, EmptyHash), idx)
  ELSE topics

\* the loop of ethLogFromEvent from the state st on, and the test after it
RECURSIVE LogFromEntriesNoGapTest(_, _)
LogFromEntriesNoGapTest(es, st) ==
  IF es = <<>>
  THEN [data |-> st.data, topics |-> st.topics, ok |-> TRUE]
  ELSE LET entry == Head(es)
           idx == entry.key[2] - 49
       IN IF entry.codec # "raw" THEN Rejected
          ELSE IF IsTopicKey(entry.key)
          THEN IF entry.value.len # 32 THEN Rejected
               ELSE IF st.topicsFound[idx] THEN Rejected
               ELSE LogFromEntriesNoGapTest(Tail(es),
                      [st EXCEPT !.topicsFound[idx] = TRUE,
                                 !.topicsFoundCount = @ + 1,
                                 !.topics = [ExtendTopics(@, idx)
                                               EXCEPT ![idx + 1] = entry.value]])
          ELSE IF entry.key = KeyD
          THEN IF st.dataFound THEN Rejected
               ELSE LogFromEntriesNoGapTest(Tail(es),
                      [st EXCEPT !.dataFound = TRUE, !.data = entry.value])
          ELSE LogFromEntriesNoGapTest(Tail(es), st)
RECURSIVE LogFromEntries(_, _)
LogFromEntries(es, st) ==
  IF es = <<>>
  THEN IF Len(st.topics) # st.topicsFoundCount THEN Rejected
       ELSE [data |-> st.data, topics |-> st.topics, ok |-> TRUE]
  ELSE LET entry == Head(es)
           idx == entry.key[2] - 49
       IN IF entry.codec # "raw" THEN Rejected
          ELSE IF IsTopicKey(entry.key)
          THEN IF entry.value.len # 32 THEN Rejected
               ELSE IF st.topicsFound[idx] THEN Rejected
               ELSE LogFromEntries(Tail(es),
                      [st EXCEPT !.topicsFound[idx] = TRUE,
                                 !.topicsFoundCount = @ + 1,
                                 !.topics = [ExtendTopics(@, idx)
                                               EXCEPT ![idx + 1] = entry.value]])
          ELSE IF entry.key = KeyD
          THEN IF st.dataFound THEN Rejected
               ELSE LogFromEntries(Tail(es),
                      [st EXCEPT !.dataFound = TRUE, !.data = entry.value])
          ELSE LogFromEntries(Tail(es), st)

ethLogFromEvent(es) ==
  LogFromEntries(es, [topicsFound |-> [i \in 0..3 |-> FALSE],
                      topicsFoundCount |-> 0,
                      topics |-> <<>>,
                      dataFound |-> FALSE,
                      data |-> NilBytes])

\* values of 32 bytes and one of 31
EntryValues == {[len |-> 32, v |-> "a"], [len |-> 32, v |-> "b"],
                [len |-> 31, v |-> "s"]}
TopicKeys == {KeyT1, KeyT2, KeyT3, KeyT4}
\* the keys t0, t5, t and t10, which are outside the scheme
OtherKeys == {<<116, 48>>, <<116, 53>>, <<116>>, <<116, 49, 48>>}
\* the entries of an event: topics and data with the raw codec, entries with
\* keys outside the scheme, and two entries with another codec
Entries ==
  [codec : {"raw"}, key : TopicKeys, value : EntryValues]
  \cup [codec : {"raw"}, key : {KeyD},
        value : {[len |-> 32, v |-> "a"], [len |-> 31, v |-> "s"]}]
  \cup [codec : {"raw"}, key : OtherKeys, value : {[len |-> 31, v |-> "s"]}]
  \cup {[codec |-> "cbor", key |-> KeyT1, value |-> [len |-> 32, v |-> "a"]],
        [codec |-> "cbor", key |-> <<116, 53>>, value |-> [len |-> 32, v |-> "a"]]}

SeqsUpTo(S, n) == UNION {[1..k -> S] : k \in 0..n}

\* a call of ethLogFromEvent on an entry list drawn from the sets above
LogInit ==
  /\ WaitInit
  /\ SubInit
  /\ RangeIdle
  /\ disable = FALSE
  /\ indexEnabled = TRUE
  /\ ApiIdle
  /\ logPc = "call"
  /\ entries \in SeqsUpTo(Entries, MaxEntries)
  /\ logOut = Rejected

EthLogFromEvent ==
  /\ logPc = "call"
  /\ logOut' = ethLogFromEvent(entries)
  /\ logPc' = "done"
  /\ UNCHANGED entries
  /\ UNCHANGED <<coreVars, waitVars, received, rangeVars, apiVars>>

NextLog == EthLogFromEvent

LogSpec == LogInit /\ [][NextLog]_vars

\* ------------------------------------------------- the polling-filter API
\* e.MaxFilterHeightRange
MaxFilterHeightRange == 50

coreButMgr == <<ctlVars, lockVars, subVars, chanVars, queueVars, installing,
                histVars>>
\* what no call of the polling-filter API touches
\* the configuration
cfgVars == <<disable, indexEnabled>>
apiFrame == <<coreButMgr, received, rangeVars, logVars, cfgVars>>

\* types.EthFilterSpec: a block hash or not, the two block parameters, and
\* whether its addresses and topics can be converted
FilterSpecs ==
  [blockHash : BOOLEAN,
   fromBlock : {NilPtr, Str(<<"0", "x", "5">>)},
   toBlock : {NilPtr, Str(<<"0", "x", "5">>)},
   valid : BOOLEAN]
\* heights of the head the calls read
ApiHeads == {0, 100}

NewFilterOps == {"EthNewFilter", "EthNewBlockFilter",
                 "EthNewPendingTransactionFilter"}

\* the filter variant each call installs
KindOfNew(op) ==
  CASE op = "EthNewFilter" -> "event"
    [] op = "EthGetLogs" -> "event"
    [] op = "EthNewBlockFilter" -> "tipset"
    [] op = "EthNewPendingTransactionFilter" -> "mempool"

\* installEthFilterSpec and parseEthFilterSpec up to the parsed filter: the
\* error they return, "nil" for none. headFails: ChainHead returned an error.
FilterSpecErrorNoHashCheck(spec, hd, headFails) ==
  IF ~spec.blockHash /\ headFails THEN "err_head"
  ELSE IF ~spec.blockHash
          /\ parseBlockRange(hd, spec.fromBlock, spec.toBlock,
                             MaxFilterHeightRange).err # "nil"
  THEN "err_range"
  ELSE IF ~spec.valid THEN "err_invalid"
  ELSE "nil"
FilterSpecError(spec, hd, headFails) ==
  IF spec.blockHash /\ (~spec.fromBlock.nil \/ ~spec.toBlock.nil)
  THEN "err_hash_and_range"
  ELSE IF ~spec.blockHash /\ headFails THEN "err_head"
  ELSE IF ~spec.blockHash
          /\ parseBlockRange(hd, spec.fromBlock, spec.toBlock,
                             MaxFilterHeightRange).err # "nil"
  THEN "err_range"
  ELSE IF ~spec.valid THEN "err_invalid"
  ELSE "nil"

\* the heights of the parsed filter
ParsedRange(spec, hd) ==
  IF spec.blockHash THEN [minHeight |-> 0, maxHeight |-> 0, err |-> "nil"]
  ELSE parseBlockRange(hd, spec.fromBlock, spec.toBlock, MaxFilterHeightRange)

\* a call begins: what the store and the managers hold is remembered
ApiBegin(c, call) ==
  /\ apiCall' = [apiCall EXCEPT ![c] = call]
  /\ snap' = [snap EXCEPT ![c] =
                [store |-> store, mgr |-> mgrFilters, installs |-> installs,
                 was |-> <<snap[c].store, snap[c].mgr>>,
                 wasId |-> IF apiCall[c].op \in NewFilterOps /\ apiRes[c].r = "ok"
                           THEN apiRes[c].id ELSE 0]]
  /\ calls' = calls + 1

\* a call returns at once
ApiRejected(c, call, r) ==
  /\ ApiBegin(c, [call EXCEPT !.head = 0])
  /\ apiPc' = [apiPc EXCEPT ![c] = "idle"]
  /\ apiRes' = [apiRes EXCEPT ![c] = [r |-> r, id |-> call.id, items |-> <<>>]]

\* a call returns after some steps
ApiReturn(c, r, id, items) ==
  /\ apiPc' = [apiPc EXCEPT ![c] = "idle"]
  /\ apiRes' = [apiRes EXCEPT ![c] = [r |-> r, id |-> id, items |-> items]]
  /\ apiCall' = [apiCall EXCEPT ![c].spec = NoSpec]

\* the filter the next Install of a manager creates
FreshFilter(kind) == [id |-> 10 + installs + 1, kind |-> kind]

\* Install of a manager: the filter is created and registered with the
\* manager; its last-access time is the time of its creation.
ManagerInstall(f) ==
  /\ mgrFilters' = mgrFilters \cup {f}
  /\ installs' = installs + 1
  /\ lastTaken' = [lastTaken EXCEPT ![f.id] = now]

\* EthNewFilter, EthNewBlockFilter, EthNewPendingTransactionFilter up to the
\* manager's Install
NewFilterCall(c, ops, specs) ==
  /\ apiPc[c] = "idle"
  /\ calls < MaxCalls
  /\ installs < MaxInstalls
  /\ \E op \in ops \cap NewFilterOps, spec \in specs, hd \in ApiHeads,
        headFails \in BOOLEAN, installFails \in BOOLEAN :
       /\ op # "EthNewFilter" => (spec = NoSpec /\ hd = 0 /\ ~headFails)
       /\ LET call == [op |-> op, spec |-> spec, id |-> 0, head |-> hd]
              err == IF op = "EthNewFilter"
                     THEN FilterSpecError(spec, hd, headFails) ELSE "nil"
              fail == IF disable THEN "err_notsupported"
                      ELSE IF err # "nil" THEN err
                      ELSE IF installFails THEN "err_install"
                      ELSE "nil"
          IN IF fail # "nil"
             THEN /\ ApiRejected(c, call, fail)
                  /\ UNCHANGED <<mgrFilters, installs, lastTaken, apiF>>
             ELSE /\ ApiBegin(c, [call EXCEPT !.head = 0])
                  /\ ManagerInstall(FreshFilter(KindOfNew(op)))
                  /\ apiF' = [apiF EXCEPT ![c] = FreshFilter(KindOfNew(op))]
                  /\ apiPc' = [apiPc EXCEPT ![c] = "nf_add"]
                  /\ UNCHANGED apiRes
  /\ UNCHANGED <<store, collected, now, apiTaken, gcList, gcCut, gcOld, tipsetProcessed, collects, polled>>
  /\ UNCHANGED <<apiFrame, waitVars>>

\* e.FilterStore.Add(ctx, f): fails when the store is full
NewFilterAdd(c) ==
  /\ apiPc[c] = "nf_add"
  /\ IF Cardinality(store) >= MaxFilters
     THEN /\ apiPc' = [apiPc EXCEPT ![c] = "nf_cleanup"]
          /\ UNCHANGED <<store, apiRes, apiCall>>
     ELSE /\ store' = store \cup {apiF[c]}
          /\ ApiReturn(c, "ok", apiF[c].id, <<>>)
  /\ UNCHANGED <<mgrFilters, lastTaken, collected, now, installs, apiF>>
  /\ UNCHANGED <<apiTaken, gcList, gcCut, gcOld, tipsetProcessed, snap, calls, collects, polled>>
  /\ UNCHANGED <<apiFrame, waitVars>>

\* variant: the error of Add is returned without the clean-up
NewFilterNoCleanup(c) ==
  /\ apiPc[c] = "nf_cleanup"
  /\ ApiReturn(c, "err_store_full", 0, <<>>)
  /\ UNCHANGED <<mgrFilters, store, lastTaken, collected, now, installs>>
  /\ UNCHANGED <<apiF, apiTaken, gcList, gcCut, gcOld, tipsetProcessed, snap, calls, collects, polled>>
  /\ UNCHANGED <<apiFrame, waitVars>>

\* Add failed: the manager's Remove is called; when it fails too, an error
\* naming both is returned, otherwise the error of Add.
NewFilterCleanup(c) ==
  /\ apiPc[c] = "nf_cleanup"
  /\ \E managerFails \in BOOLEAN :
       IF managerFails
       THEN /\ ApiReturn(c, "err_add_and_remove", 0, <<>>)
            /\ UNCHANGED mgrFilters
       ELSE /\ mgrFilters' = mgrFilters \ {apiF[c]}
            /\ ApiReturn(c, "err_store_full", 0, <<>>)
  /\ UNCHANGED <<store, lastTaken, collected, now, installs, apiF>>
  /\ UNCHANGED <<apiTaken, gcList, gcCut, gcOld, tipsetProcessed, snap, calls, collects, polled>>
  /\ UNCHANGED <<apiFrame, waitVars>>


\* ---- events and their conversion
\* a CollectedEvent: its entries, and how the conversions of its emitter
\* address and of its message go: "ok", "err", or "gone" when the message is
\* no longer stored and the hash comes back empty
GoodEntries == <<[codec |-> "raw", key |-> KeyT1, value |-> [len |-> 32, v |-> "a"]]>>
BadEntries == <<[codec |-> "cbor", key |-> KeyT1, value |-> [len |-> 32, v |-> "a"]]>>
EventsFor(n) ==
  {[n |-> n, entries |-> GoodEntries, conv |-> "ok"],
   [n |-> n, entries |-> BadEntries, conv |-> "ok"],
   [n |-> n, entries |-> BadEntries, conv |-> "err"],
   [n |-> n, entries |-> GoodEntries, conv |-> "err"],
   [n |-> n, entries |-> GoodEntries, conv |-> "gone"]}

\* ethFilterLogsFromEvents: the logs of the events that decode, in their
\* order, or the error of a conversion
RECURSIVE LogsFromEventsDecodeFatal(_, _)
LogsFromEventsDecodeFatal(evs, logs) ==
  IF evs = <<>> THEN [err |-> "nil", logs |-> logs]
  ELSE IF ~ethLogFromEvent(Head(evs).entries).ok
       THEN [err |-> "err_convert", logs |-> <<>>]
  ELSE IF Head(evs).conv = "err" THEN [err |-> "err_convert", logs |-> <<>>]
  ELSE IF Head(evs).conv = "gone" THEN LogsFromEventsDecodeFatal(Tail(evs), logs)
  ELSE LogsFromEventsDecodeFatal(Tail(evs), Append(logs, Head(evs).n))
RECURSIVE LogsFromEvents(_, _)
LogsFromEvents(evs, logs) ==
  IF evs = <<>> THEN [err |-> "nil", logs |-> logs]
  ELSE IF ~ethLogFromEvent(Head(evs).entries).ok
       THEN LogsFromEvents(Tail(evs), logs)
  ELSE IF Head(evs).conv = "err" THEN [err |-> "err_convert", logs |-> <<>>]
  ELSE IF Head(evs).conv = "gone" THEN LogsFromEvents(Tail(evs), logs)
  ELSE LogsFromEvents(Tail(evs), Append(logs, Head(evs).n))

ethFilterLogsFromEvents(evs) == LogsFromEvents(evs, <<>>)

\* ethFilterResultFromTipSets, ethFilterResultFromMessages: every item is
\* converted, an error of a conversion is returned
RECURSIVE HashesFrom(_, _)
HashesFrom(items, out) ==
  IF items = <<>> THEN [err |-> "nil", logs |-> out]
  ELSE IF Head(items).conv = "err" THEN [err |-> "err_convert", logs |-> <<>>]
  ELSE HashesFrom(Tail(items), Append(out, Head(items).n))

\* the result a poll builds from what it took from a filter of the kind
ResultFrom(kind, items) ==
  IF kind = "event" THEN ethFilterLogsFromEvents(items)
  ELSE HashesFrom(items, <<>>)

\* ---- uninstallFilter, as the filter API and the GC use it
\* uninstallFilter has returned err to the thread t
AfterUninstall(t, err) ==
  CASE apiCall[t].op = "EthUninstallFilter" ->
         /\ ApiReturn(t, IF err = "nil" THEN "true" ELSE err, apiF[t].id, <<>>)
    [] apiCall[t].op = "EthGetLogs" ->
         /\ apiPc' = [apiPc EXCEPT ![t] = "gl_result"]
         /\ UNCHANGED <<apiRes, apiCall>>
    [] apiCall[t].op = "GC" ->
         /\ apiPc' = [apiPc EXCEPT ![t] = "gc_loop"]
         /\ UNCHANGED <<apiRes, apiCall>>

\* EthUninstallFilter(id) up to uninstallFilter: an id the store does not
\* have gives (false, nil)
UninstallCall(c) ==
  /\ apiPc[c] = "idle"
  /\ calls < MaxCalls
  /\ \E id \in ApiIDs :
       LET call == [op |-> "EthUninstallFilter", spec |-> NoSpec,
                    id |-> id, head |-> 0]
       IN IF disable
          THEN ApiRejected(c, call, "err_notsupported") /\ UNCHANGED apiF
          ELSE IF \E f \in store : f.id = id
          THEN /\ ApiBegin(c, call)
               /\ apiF' = [apiF EXCEPT ![c] = CHOOSE f \in store : f.id = id]
               /\ apiPc' = [apiPc EXCEPT ![c] = "un_mgr"]
               /\ UNCHANGED apiRes
          ELSE ApiRejected(c, call, "false") /\ UNCHANGED apiF
  /\ UNCHANGED <<mgrFilters, store, lastTaken, collected, now, installs>>
  /\ UNCHANGED <<apiTaken, gcList, gcCut, gcOld, tipsetProcessed, collects, polled>>
  /\ UNCHANGED <<apiFrame, waitVars>>

\* variant: the filter is left registered with its manager
UninstallManagerSkips(t) ==
  /\ apiPc[t] = "un_mgr"
  /\ apiPc' = [apiPc EXCEPT ![t] = "un_store"]
  /\ UNCHANGED <<apiRes, apiCall, mgrFilters>>
  /\ UNCHANGED <<store, lastTaken, collected, now, installs, apiF>>
  /\ UNCHANGED <<apiTaken, gcList, gcCut, gcOld, tipsetProcessed, snap, calls, collects, polled>>
  /\ UNCHANGED <<apiFrame, waitVars>>

\* uninstallFilter: Remove of the manager of the filter's variant; not-found
\* is tolerated, another error is returned
UninstallManager(t) ==
  /\ apiPc[t] = "un_mgr"
  /\ \E managerFails \in BOOLEAN :
       IF managerFails
       THEN /\ AfterUninstall(t, "err_remove")
            /\ UNCHANGED mgrFilters
       ELSE /\ mgrFilters' = mgrFilters \ {apiF[t]}
            /\ apiPc' = [apiPc EXCEPT ![t] = "un_store"]
            /\ UNCHANGED <<apiRes, apiCall>>
  /\ UNCHANGED <<store, lastTaken, collected, now, installs, apiF>>
  /\ UNCHANGED <<apiTaken, gcList, gcCut, gcOld, tipsetProcessed, snap, calls, collects, polled>>
  /\ UNCHANGED <<apiFrame, waitVars>>

\* variant: the filter stays in the store
UninstallStoreKeeps(t) ==
  /\ apiPc[t] = "un_store"
  /\ AfterUninstall(t, "nil")
  /\ UNCHANGED <<store, mgrFilters, lastTaken, collected, now, installs>>
  /\ UNCHANGED <<apiF, apiTaken, gcList, gcCut, gcOld, tipsetProcessed, snap, calls, collects, polled>>
  /\ UNCHANGED <<apiFrame, waitVars>>

\* uninstallFilter: return e.FilterStore.Remove(ctx, f.ID())
UninstallStore(t) ==
  /\ apiPc[t] = "un_store"
  /\ store' = store \ {apiF[t]}
  /\ AfterUninstall(t, IF apiF[t] \in store THEN "nil" ELSE "err_notfound")
  /\ UNCHANGED <<mgrFilters, lastTaken, collected, now, installs>>
  /\ UNCHANGED <<apiF, apiTaken, gcList, gcCut, gcOld, tipsetProcessed, snap, calls, collects, polled>>
  /\ UNCHANGED <<apiFrame, waitVars>>

\* ---- the garbage collector
\* the clock advances
Tick ==
  /\ now < MaxTime
  /\ now' = now + 1
  /\ UNCHANGED <<mgrFilters, store, lastTaken, collected, installs, apiPc>>
  /\ UNCHANGED <<apiCall, apiF, apiTaken, apiRes, gcList, gcCut, gcOld, tipsetProcessed, snap, calls, collects, polled>>
  /\ UNCHANGED <<apiFrame, waitVars>>

\* FilterStore.NotTakenSince(when): the filters last accessed before when
NotTakenSinceOrAt(when) == {f \in store : lastTaken[f.id] <= when}
NotTakenSince(when) == {f \in store : lastTaken[f.id] < when}

\* the orders in which a set can be enumerated
Orders(S) ==
  {q \in [1..Cardinality(S) -> S] : \A i, j \in 1..Cardinality(S) : q[i] = q[j] => i = j}

\* case <-tt.C: fs := e.FilterStore.NotTakenSince(time.Now().Add(-ttl))
GCEnumerate ==
  /\ apiPc[GcT] \in {"idle", "gc_done"}
  /\ ~disable
  /\ gcCut' = now - FilterTTL
  /\ gcOld' = NotTakenSince(now - FilterTTL)
  /\ UNCHANGED tipsetProcessed
  /\ gcList' \in Orders(NotTakenSince(now - FilterTTL))
  /\ apiPc' = [apiPc EXCEPT ![GcT] = "gc_loop"]
  /\ apiCall' = [apiCall EXCEPT ![GcT] = [op |-> "GC", spec |-> NoSpec,
                                          id |-> 0, head |-> 0]]
  /\ snap' = [snap EXCEPT ![GcT] = [NoSnap EXCEPT !.store = store,
                                                  !.mgr = mgrFilters,
                                                  !.installs = installs]]
  /\ UNCHANGED <<mgrFilters, store, lastTaken, collected, now, installs>>
  /\ UNCHANGED <<apiF, apiTaken, apiRes, calls, collects, polled>>
  /\ UNCHANGED <<apiFrame, waitVars>>

\* for _, f := range fs: the next filter is passed to uninstallFilter, or
\* the sweep is over
GCNext ==
  /\ apiPc[GcT] = "gc_loop"
  /\ IF gcList = <<>>
     THEN /\ apiPc' = [apiPc EXCEPT ![GcT] = "gc_done"]
          /\ apiF' = [apiF EXCEPT ![GcT] = NoFilter]
          /\ UNCHANGED gcList
     ELSE /\ apiF' = [apiF EXCEPT ![GcT] = Head(gcList)]
          /\ gcList' = Tail(gcList)
          /\ apiPc' = [apiPc EXCEPT ![GcT] = "un_mgr"]
  /\ UNCHANGED <<mgrFilters, store, lastTaken, collected, now, installs, apiCall>>
  /\ UNCHANGED <<apiTaken, apiRes, gcCut, gcOld, tipsetProcessed, snap, calls, collects, polled>>
  /\ UNCHANGED <<apiFrame, waitVars>>

GCStep == GCEnumerate \/ GCNext \/ UninstallManager(GcT) \/ UninstallStore(GcT)

\* ---- polls
\* TakeCollectedEvents, TakeCollectedTipSets, TakeCollectedMessages: the
\* buffer is handed over and cleared in one step, the access is recorded
TakeCollectedKeeps(f) ==
  /\ collected' = collected
  /\ lastTaken' = [lastTaken EXCEPT ![f.id] = now]
TakeCollected(f) ==
  /\ collected' = [collected EXCEPT ![f.id] = <<>>]
  /\ lastTaken' = [lastTaken EXCEPT ![f.id] = now]

PollOps == {"EthGetFilterChanges", "EthGetFilterLogs"}

\* EthGetFilterChanges(id), EthGetFilterLogs(id) up to the type switch
PollCall(c, ops) ==
  /\ apiPc[c] = "idle"
  /\ calls < MaxCalls
  /\ \E op \in ops \cap PollOps, id \in ApiIDs :
       /\ LET call == [op |-> op, spec |-> NoSpec, id |-> id, head |-> 0]
              found == \E f \in store : f.id = id
              f == CHOOSE f \in store : f.id = id
              fail == IF disable THEN "err_notsupported"
                      ELSE IF ~found THEN "err_notfound"
                      ELSE IF op = "EthGetFilterLogs" /\ f.kind # "event"
                      THEN "err_wrong_type"
                      ELSE "nil"
          IN IF fail # "nil"
             THEN ApiRejected(c, call, fail) /\ UNCHANGED apiF
             ELSE /\ ApiBegin(c, call)
                  /\ apiF' = [apiF EXCEPT ![c] = f]
                  /\ apiPc' = [apiPc EXCEPT ![c] = "poll_take"]
                  /\ UNCHANGED apiRes
  /\ UNCHANGED <<mgrFilters, store, lastTaken, collected, now, installs>>
  /\ UNCHANGED <<apiTaken, gcList, gcCut, gcOld, tipsetProcessed, collects, polled>>
  /\ UNCHANGED <<apiFrame, waitVars>>

\* the poll takes what the filter collected and returns its conversion
PollTake(c) ==
  /\ apiPc[c] = "poll_take"
  /\ TakeCollected(apiF[c])
  /\ LET r == ResultFrom(apiF[c].kind, collected[apiF[c].id])
     IN /\ ApiReturn(c, IF r.err = "nil" THEN "ok" ELSE r.err, apiF[c].id, r.logs)
        /\ polled' = polled \o [i \in 1..Len(r.logs) |-> <<apiF[c].id, r.logs[i]>>]
  /\ UNCHANGED <<mgrFilters, store, now, installs, apiF, apiTaken>>
  /\ UNCHANGED <<gcList, gcCut, gcOld, tipsetProcessed, snap, calls, collects>>
  /\ UNCHANGED <<apiFrame, waitVars>>

\* A manager matches an event, a tipset or a message: it is appended to the
\* buffer of every filter of that kind registered with the manager.
Collect(kinds) ==
  /\ collects < MaxCollected
  /\ collects' = collects + 1
  /\ \E kind \in kinds, item \in EventsFor(collects + 1) :
       /\ kind # "event" => (item.entries = GoodEntries /\ item.conv # "gone")
       /\ collected' = [i \in ApiIDs |->
                          IF [id |-> i, kind |-> kind] \in mgrFilters
                          THEN Append(collected[i], item) ELSE collected[i]]
  /\ UNCHANGED <<mgrFilters, store, lastTaken, now, installs, apiPc, apiCall>>
  /\ UNCHANGED <<apiF, apiTaken, apiRes, gcList, gcCut, gcOld, tipsetProcessed, snap, calls, polled>>
  /\ UNCHANGED <<apiFrame, waitVars>>

\* ---- EthGetLogs
\* what the index holds for a historical query
HistoricEvents ==
  {<<>>} \cup {<<e>> : e \in EventsFor(1)}
  \cup {<<e1, e2>> : e1 \in {e \in EventsFor(1) : e.conv = "ok"},
                     e2 \in {e \in EventsFor(2) : e.conv = "ok"}}

\* EthGetLogs, ethGetEventsForFilter up to the call of
\* waitForHeightProcessed. tsh: the height of the tipset of the block hash,
\* -1 when GetTipSetByCid fails.
GetLogsCall(c, specs, heads) ==
  /\ apiPc[c] = "idle"
  /\ calls < MaxCalls
  /\ installs < MaxInstalls
  /\ wfPc = "idle"
  /\ \E spec \in specs, hd \in heads, tsh \in {-1, 0, 101} :
       /\ ~spec.blockHash => tsh = 0
       /\ LET call == [op |-> "EthGetLogs", spec |-> spec, id |-> 0, head |-> hd]
              err == FilterSpecError(spec, hd, FALSE)
              pf == ParsedRange(spec, hd)
              maxH == IF pf.maxHeight = -1 THEN hd - 1 ELSE pf.maxHeight
              fail == IF disable THEN "err_notsupported"
                      ELSE IF ~indexEnabled THEN "err_index_disabled"
                      ELSE IF err # "nil" THEN err
                      ELSE IF ~spec.blockHash /\ maxH < 0 THEN "err_max_negative"
                      ELSE IF ~spec.blockHash /\ maxH > hd - 1 THEN "err_max_above_head"
                      ELSE IF spec.blockHash /\ tsh = -1 THEN "err_tipset"
                      ELSE "nil"
          IN IF fail # "nil"
             THEN /\ ApiRejected(c, call, fail)
                  /\ UNCHANGED <<wfPc, height, head>>
             ELSE /\ ApiBegin(c, [call EXCEPT !.head = 0])
                  /\ wfPc' = "head"
                  /\ height' = IF spec.blockHash THEN tsh ELSE maxH
                  /\ head' = hd
                  /\ apiPc' = [apiPc EXCEPT ![c] = "gl_wait"]
                  /\ UNCHANGED apiRes
  /\ UNCHANGED <<ctxState, indexPast, subscribed, subCh, updates, wfResult>>
  /\ UNCHANGED <<checks, subscribeCalls, unsubscribeCalls>>
  /\ UNCHANGED <<mgrFilters, store, lastTaken, collected, now, installs, apiF>>
  /\ tipsetProcessed' = "none"
  /\ UNCHANGED <<apiTaken, gcList, gcCut, gcOld, collects, polled>>
  /\ UNCHANGED apiFrame

\* the call of waitForHeightProcessed is over: its locals are gone, and so
\* is what the index did about the height of this call
WaitFrameGone ==
  /\ wfPc' = "idle"
  /\ height' = 0
  /\ head' = 0
  /\ ctxState' = "live"
  /\ indexPast' = FALSE
  /\ subscribed' = FALSE
  /\ subCh' = 0
  /\ updates' = 0
  /\ wfResult' = "none"
  /\ checks' = <<>>
  /\ subscribeCalls' = 0
  /\ unsubscribeCalls' = 0

\* variant: the filter is installed whatever the index said
GetLogsInstallDespiteIndex(c) ==
  /\ apiPc[c] = "gl_wait"
  /\ wfPc = "done"
  /\ \E processed \in {"err", "false", "true"}, installFails \in BOOLEAN,
        evs \in HistoricEvents :
       /\ ~apiCall[c].spec.blockHash => processed = "true"
       /\ wfResult # "nil" => processed = "true"
       /\ tipsetProcessed' = IF apiCall[c].spec.blockHash /\ wfResult = "nil"
                              THEN processed ELSE "none"
       /\ LET fail == IF installFails THEN "err_install" ELSE "nil"
              f == FreshFilter("event")
          IN IF fail # "nil"
             THEN /\ evs = <<>>
                  /\ ApiReturn(c, fail, 0, <<>>)
                  /\ UNCHANGED <<mgrFilters, installs, lastTaken, collected, apiF>>
             ELSE /\ ManagerInstall(f)
                  /\ collected' = [collected EXCEPT ![f.id] = evs]
                  /\ apiF' = [apiF EXCEPT ![c] = f]
                  /\ apiPc' = [apiPc EXCEPT ![c] = "gl_take"]
                  /\ UNCHANGED <<apiRes, apiCall>>
  /\ WaitFrameGone
  /\ UNCHANGED <<store, now, apiTaken, gcList, gcCut, gcOld, snap, calls>>
  /\ UNCHANGED <<collects, polled>>
  /\ UNCHANGED apiFrame

\* waitForHeightProcessed has returned: its error is returned; for a block
\* hash IsTipsetProcessed is asked; then the temporary filter is installed,
\* which collects what the index holds.
GetLogsInstall(c) ==
  /\ apiPc[c] = "gl_wait"
  /\ wfPc = "done"
  /\ \E processed \in {"err", "false", "true"}, installFails \in BOOLEAN,
        evs \in HistoricEvents :
       /\ ~apiCall[c].spec.blockHash => processed = "true"
       /\ wfResult # "nil" => processed = "true"
       /\ tipsetProcessed' = IF apiCall[c].spec.blockHash /\ wfResult = "nil"
                              THEN processed ELSE "none"
       /\ LET fail == IF wfResult # "nil" THEN wfResult
                      ELSE IF processed = "err" THEN "err_processed_check"
                      ELSE IF processed = "false" THEN "err_not_indexed"
                      ELSE IF installFails THEN "err_install"
                      ELSE "nil"
              f == FreshFilter("event")
          IN IF fail # "nil"
             THEN /\ evs = <<>>
                  /\ ApiReturn(c, fail, 0, <<>>)
                  /\ UNCHANGED <<mgrFilters, installs, lastTaken, collected, apiF>>
             ELSE /\ ManagerInstall(f)
                  /\ collected' = [collected EXCEPT ![f.id] = evs]
                  /\ apiF' = [apiF EXCEPT ![c] = f]
                  /\ apiPc' = [apiPc EXCEPT ![c] = "gl_take"]
                  /\ UNCHANGED <<apiRes, apiCall>>
  /\ WaitFrameGone
  /\ UNCHANGED <<store, now, apiTaken, gcList, gcCut, gcOld, snap, calls>>
  /\ UNCHANGED <<collects, polled>>
  /\ UNCHANGED apiFrame

\* variant: the temporary filter is not uninstalled
GetLogsTakeNoUninstall(c) ==
  /\ apiPc[c] = "gl_take"
  /\ TakeCollected(apiF[c])
  /\ apiTaken' = [apiTaken EXCEPT ![c] = collected[apiF[c].id]]
  /\ apiPc' = [apiPc EXCEPT ![c] = "gl_result"]
  /\ UNCHANGED <<mgrFilters, store, now, installs, apiCall, apiF, apiRes>>
  /\ UNCHANGED <<gcList, gcCut, gcOld, tipsetProcessed, snap, calls, collects, polled>>
  /\ UNCHANGED <<apiFrame, waitVars>>

\* ces := f.TakeCollectedEvents(ctx)
GetLogsTake(c) ==
  /\ apiPc[c] = "gl_take"
  /\ TakeCollected(apiF[c])
  /\ apiTaken' = [apiTaken EXCEPT ![c] = collected[apiF[c].id]]
  /\ apiPc' = [apiPc EXCEPT ![c] = "un_mgr"]
  /\ UNCHANGED <<mgrFilters, store, now, installs, apiCall, apiF, apiRes>>
  /\ UNCHANGED <<gcList, gcCut, gcOld, tipsetProcessed, snap, calls, collects, polled>>
  /\ UNCHANGED <<apiFrame, waitVars>>

\* the error of uninstallFilter is dropped; EthGetLogs returns
\* ethFilterResultFromEvents(ces)
GetLogsResult(c) ==
  /\ apiPc[c] = "gl_result"
  /\ LET r == ethFilterLogsFromEvents(apiTaken[c])
     IN ApiReturn(c, IF r.err = "nil" THEN "ok" ELSE r.err, 0, r.logs)
  /\ UNCHANGED <<mgrFilters, store, lastTaken, collected, now, installs>>
  /\ tipsetProcessed' = "none"
  /\ UNCHANGED <<apiF, apiTaken, gcList, gcCut, gcOld, snap, calls, collects, polled>>
  /\ UNCHANGED <<apiFrame, waitVars>>

\* waitForHeightProcessed runs inside EthGetLogs, next to the index and to
\* the timer and the cancellation of the caller's context
GetLogsWait(c) ==
  /\ apiPc[c] = "gl_wait"
  /\ \/ WaitStep
     \/ WaitTimeout
     \/ WaitCancel
     \/ \E reaches \in BOOLEAN : IndexUpdate(reaches)

\* ---- the filter API in use
\* the filter API is configured one way or another
ApiInit ==
  /\ WaitInit
  /\ SubInit
  /\ RangeIdle
  /\ LogIdle
  /\ disable \in BOOLEAN
  /\ indexEnabled \in BOOLEAN
  /\ ApiIdle

\* the steps of EthNewFilter, EthNewBlockFilter, EthNewPendingTransactionFilter
NewFilterStep(c, ops, specs) ==
  NewFilterCall(c, ops, specs) \/ NewFilterAdd(c) \/ NewFilterCleanup(c)

\* One client that installs and uninstalls filters.
NextFilters ==
  \/ NewFilterStep("c1", NewFilterOps, FilterSpecs)
  \/ UninstallCall("c1") \/ UninstallManager("c1") \/ UninstallStore("c1")

FilterSpec == ApiInit /\ [][NextFilters]_vars

\* One client that installs filters and queries with EthGetLogs.
NextGetLogs ==
  \/ NewFilterStep("c1", {"EthNewFilter"}, FilterSpecs)
  \/ GetLogsCall("c1", FilterSpecs, ApiHeads) \/ GetLogsWait("c1") \/ GetLogsInstall("c1")
  \/ GetLogsTake("c1") \/ UninstallManager("c1") \/ UninstallStore("c1")
  \/ GetLogsResult("c1")

GetLogsSpec == ApiInit /\ [][NextGetLogs]_vars

\* A client that installs filters, and two clients that poll while the
\* managers collect.
NextPolls ==
  \/ NewFilterStep("c1", NewFilterOps, {NoSpec})
  \/ \E c \in Clients : PollCall(c, PollOps) \/ PollTake(c)
  \/ Collect({"event", "tipset", "mempool"})

PollSpec == Init /\ [][NextPolls]_vars

\* A client that installs and polls, the clock, and the garbage collector.
NextGC ==
  \/ NewFilterStep("c1", {"EthNewFilter"}, {NoSpec})
  \/ PollCall("c1", {"EthGetFilterChanges"}) \/ PollTake("c1")
  \/ Tick
  \/ GCStep

GCSpec == Init /\ [][NextGC]_vars

\* One logs subscription on which nothing is delivered: EthSubscribe sets
\* it up and its two stages run.
ZombieSubStep ==
  \/ StartSubscription(1) \/ SubscribeInstall(1, {"logs"})
  \/ AddFilterLock(1) \/ AddFilter(1)
  \/ IngestStart(1) \/ IngestDone(1) \/ OutDone(1)

\* EthUnsubscribe of a client: StopSubscription and stop()
ZombieStopStep(t) ==
  \/ StopSubscriptionNotFound(t) \/ StopSubscriptionFound(t)
  \/ StopSubscriptionDelete(t) \/ StopLock(t) \/ StopCancel(t)
  \/ StopRange(t) \/ StopUninstall(t) \/ StopReturn(t)

\* The subscription and the client that stops it, next to a client that
\* installs one polling filter, the clock, and the garbage collector.
NextZombie ==
  \/ ZombieSubStep
  \/ FirstUnsubscribeCall({1})
  \/ ZombieStopStep(UnsubT)
  \/ (calls = 0 /\ NewFilterCall("c1", {"EthNewFilter"}, {NoSpec}))
  \/ NewFilterAdd("c1")
  \/ Tick
  \/ GCStep

ZombieSpec == Init /\ [][NextZombie]_vars

\* the ticker of the GC fires again and again, the goroutine of the GC and
\* the thread that runs stop() are scheduled
ZombieFairSpec ==
  /\ ZombieSpec
  /\ WF_vars(Tick)
  /\ WF_vars(GCStep)
  /\ WF_vars(ZombieStopStep(UnsubT))

\* ---- the conversion of collected events on every path
\* the batches of events a filter can have collected
RECURSIVE BatchesOf(_)
BatchesOf(k) ==
  IF k = 0 THEN {<<>>}
  ELSE {Append(b, e) : b \in BatchesOf(k - 1), e \in EventsFor(k)}
Batches == UNION {BatchesOf(k) : k \in 0..(MaxCollected + 1)}

\* a polling filter for events, and the temporary filter of an EthGetLogs
PolledFilter == [id |-> 11, kind |-> "event"]
TempFilter == [id |-> 12, kind |-> "event"]

\* EthNewFilter has installed a filter, which has collected a batch; c2 polls
\* it and has yet to take the batch, c1 runs an EthGetLogs that has taken the
\* same batch from its temporary filter and has uninstalled it.
DecodeInit ==
  /\ WaitInit
  /\ RangeIdle
  /\ LogIdle
  /\ SubIdle
  /\ disable = FALSE
  /\ indexEnabled = TRUE
  /\ mgrFilters = {PolledFilter}
  /\ store = {PolledFilter}
  /\ lastTaken = [i \in ApiIDs |-> 0]
  /\ now = 0
  /\ installs = 2
  /\ apiPc = [c \in ApiThreads |->
               IF c = "c1" THEN "gl_result" ELSE IF c = "c2" THEN "poll_take" ELSE "idle"]
  /\ apiF = [c \in ApiThreads |->
              IF c = "c1" THEN TempFilter ELSE IF c = "c2" THEN PolledFilter ELSE NoFilter]
  /\ apiRes = [c \in ApiThreads |-> NoResult]
  /\ gcList = <<>>
  /\ gcCut = 0
  /\ gcOld = {}
  /\ tipsetProcessed = "none"
  /\ snap = [c \in ApiThreads |->
              IF c = GcT THEN NoSnap
              ELSE [NoSnap EXCEPT !.store = {PolledFilter}, !.mgr = {PolledFilter},
                                  !.installs = IF c = "c1" THEN 1 ELSE 2]]
  /\ calls = 3
  /\ collects = 0
  /\ polled = <<>>
  /\ \E b \in Batches, op \in PollOps :
       /\ collected = [i \in ApiIDs |-> IF i = PolledFilter.id THEN b ELSE <<>>]
       /\ apiTaken = [c \in ApiThreads |-> IF c = "c1" THEN b ELSE <<>>]
       /\ apiCall = [c \in ApiThreads |->
                       IF c = "c1" THEN [NoCall EXCEPT !.op = "EthGetLogs"]
                       ELSE IF c = "c2" THEN [NoCall EXCEPT !.op = op, !.id = PolledFilter.id]
                       ELSE NoCall]

\* a logs subscription that receives two events and delivers what the
\* ingest stage makes of them
DecodeSubStep ==
  \/ StartSubscription(2) \/ SubscribeInstall(2, {"logs"})
  \/ AddFilterLock(2) \/ AddFilter(2)
  \/ IngestStart(2) \/ IngestReceive(2) \/ SendEnqueue(2)
  \/ OutWake(2) \/ OutDequeue(2) \/ OutDrained(2) \/ OutCallOk(2)
  \/ Post(2, 2)

\* The same batch goes through EthGetLogs and through a poll, next to the
\* subscription.
NextDecode ==
  \/ GetLogsResult("c1")
  \/ PollTake("c2")
  \/ DecodeSubStep

DecodeSpec == DecodeInit /\ [][NextDecode]_vars

\* ------------------------------------------------ claims on ethLogFromEvent
\* the topic slot a key names
SlotOf(k) ==
  CASE k = KeyT1 -> 1 [] k = KeyT2 -> 2 [] k = KeyT3 -> 3 [] k = KeyT4 -> 4

\* positions of the entries labelled t1..t4, and of those labelled d
TopicAt(es) == {i \in 1..Len(es) : es[i].key \in TopicKeys}
DataAt(es) == {i \in 1..Len(es) : es[i].key = KeyD}

\* the conditions of acceptance
Acceptable(es) ==
  /\ \A i \in 1..Len(es) : es[i].codec = "raw"
  /\ \A i \in TopicAt(es) : es[i].value.len = 32
  /\ \A i, j \in TopicAt(es) : es[i].key = es[j].key => i = j
  /\ Cardinality(DataAt(es)) <= 1
  /\ {SlotOf(es[i].key) : i \in TopicAt(es)} = 1..Cardinality(TopicAt(es))

\* C26: ethLogFromEvent accepts an entry list exactly when every entry has
\* the raw codec, every entry labelled t1..t4 has 32 bytes, no topic slot
\* occurs twice, at most one entry is labelled d and the filled slots are a
\* prefix t1..tk without a gap; entries with other labels are skipped; on
\* acceptance topics[i] is the value of the entry labelled t(i+1) and data is
\* the value of the d entry.
C26_LogDecoding ==
  logPc = "done" =>
    /\ logOut.ok <=> Acceptable(entries)
    /\ logOut.ok =>
         /\ Len(logOut.topics) = Cardinality(TopicAt(entries))
         /\ \A i \in TopicAt(entries) :
              logOut.topics[SlotOf(entries[i].key)] = entries[i].value
         /\ \A i \in DataAt(entries) : logOut.data = entries[i].value
         /\ DataAt(entries) = {} => logOut.data = NilBytes

\* accepted: t2 comes before t1, and an entry with another label is skipped
C26_Witness ==
  /\ logPc = "done"
  /\ logOut.ok
  /\ Len(entries) = 3
  /\ entries[1].key = KeyT2 /\ entries[2].key = KeyT1
  /\ entries[3].key \in OtherKeys
  /\ logOut.topics = <<entries[2].value, entries[1].value>>

\* ------------------------------------------------ claims on the filter API
\* the results that are not errors
OkResults == {"none", "ok", "true", "false"}
IsError(r) == r \notin OkResults

\* the call of c was given a block hash together with a from or a to block
HashWithRange(c) ==
  /\ apiCall[c].op \in {"EthNewFilter", "EthGetLogs"}
  /\ apiCall[c].spec.blockHash
  /\ ~apiCall[c].spec.fromBlock.nil \/ ~apiCall[c].spec.toBlock.nil

\* nothing is registered with a manager or in the store that was not there
\* when the call of c began, and no manager was asked to install
AsBeforeCall(c) ==
  /\ mgrFilters = snap[c].mgr
  /\ store = snap[c].store
  /\ installs = snap[c].installs

\* C21: a filter spec with a block hash together with a from or to block is
\* rejected with an error by EthNewFilter and by EthGetLogs, and no filter is
\* installed in a manager or added to the store.
C21_HashWithRangeRejected ==
  \A c \in Clients :
    HashWithRange(c) =>
      /\ apiPc[c] = "idle"
      /\ IsError(apiRes[c].r)
      /\ AsBeforeCall(c)

\* EthGetLogs has rejected such a spec while a filter was in the store
C21_Witness ==
  /\ HashWithRange("c1")
  /\ apiCall["c1"].op = "EthGetLogs"
  /\ apiRes["c1"].r = "err_hash_and_range"
  /\ store # {}

\* the call of c that has returned is an EthUninstallFilter that uninstalled
\* the filter the call of c before it had installed
UninstalledRightAfterInstall(c) ==
  /\ apiPc[c] = "idle"
  /\ apiCall[c].op = "EthUninstallFilter"
  /\ apiRes[c].r = "true"
  /\ snap[c].wasId # 0
  /\ apiCall[c].id = snap[c].wasId

\* C22: installing a filter with EthNewFilter, EthNewBlockFilter or
\* EthNewPendingTransactionFilter and uninstalling it with EthUninstallFilter
\* right away leaves the store and the managers' sets of registered filters
\* as they were before the install.
C22_InstallUninstallRoundTrip ==
  \A c \in Clients :
    UninstalledRightAfterInstall(c) =>
      /\ store = snap[c].was[1]
      /\ mgrFilters = snap[c].was[2]

\* a second filter was installed and uninstalled while the first stayed
C22_Witness ==
  /\ UninstalledRightAfterInstall("c1")
  /\ apiCall["c1"].id = 12
  /\ Cardinality(store) = 1
  /\ store = mgrFilters

\* the call of c that has returned is an EthNew...Filter that gave an error
NewFilterFailed(c) ==
  /\ apiPc[c] = "idle"
  /\ apiCall[c].op \in NewFilterOps
  /\ IsError(apiRes[c].r)

\* the filters created since the call of c began that are registered with a
\* manager or in the store
CreatedSince(c) ==
  {f \in store \cup mgrFilters : f.id > 10 + snap[c].installs}

\* C23 as stated: when EthNewFilter, EthNewBlockFilter or
\* EthNewPendingTransactionFilter returns an error, no filter created by the
\* call remains registered anywhere.
C23_NothingRemainsOnError ==
  \A c \in Clients : NewFilterFailed(c) => CreatedSince(c) = {}

\* C23, amended: when such a call returns an error, no filter created by it
\* is in the store, and none is registered with a manager unless the Remove
\* of the clean-up after a failed FilterStore.Add failed too, which the error
\* returned reports; after a failed Add whose clean-up worked the filter is
\* no longer registered with its manager.
C23_NothingRemainsUnlessCleanupFails ==
  \A c \in Clients :
    NewFilterFailed(c) =>
      /\ CreatedSince(c) \cap store = {}
      /\ apiRes[c].r # "err_add_and_remove" => CreatedSince(c) = {}
      /\ apiRes[c].r = "err_add_and_remove" =>
           CreatedSince(c) = {[id |-> snap[c].installs + 11,
                               kind |-> KindOfNew(apiCall[c].op)]}

\* the store was full, the manager had installed the filter, the clean-up
\* removed it
C23_Witness ==
  /\ NewFilterFailed("c1")
  /\ apiRes["c1"].r = "err_store_full"
  /\ Cardinality(store) = MaxFilters
  /\ installs = snap["c1"].installs + 1
  /\ CreatedSince("c1") = {}

\* ------------------------------------------------ claims on the GC
\* a sweep has gone through its list
SweepDone == apiPc[GcT] = "gc_done"

\* f is registered neither with a manager nor in the store
Uninstalled(f) == f \notin store /\ f \notin mgrFilters

\* C24 as stated: a sweep at time now uninstalls every filter of the store
\* whose last access is older than now - ttl.
C24_SweepRemovesEveryExpired ==
  SweepDone => \A f \in gcOld : Uninstalled(f)

\* C24, amended: a sweep at time now passes to uninstallFilter exactly the
\* filters of the store whose last access is older than now - ttl; each of
\* them is removed from its manager and from the store, or, when its manager
\* fails to remove it, stays in both; a filter of the store whose last access
\* lies within the ttl is not removed.
C24_SweepUninstallsExpired ==
  /\ [][apiPc[GcT] \in {"idle", "gc_done"} /\ apiPc'[GcT] = "gc_loop"
         => gcOld' = {f \in store : lastTaken[f.id] < now - FilterTTL}]_vars
  /\ [](SweepDone =>
          \A f \in snap[GcT].store :
            /\ f \notin gcOld => f \in store /\ f \in mgrFilters
            /\ f \in gcOld => Uninstalled(f) \/ (f \in store /\ f \in mgrFilters))

\* ttl 1: at time 2 the filter last accessed at time 0 was removed and the
\* one accessed at time 1 has stayed
C24_Witness ==
  /\ SweepDone
  /\ now = 2
  /\ gcCut = 1
  /\ gcOld = {[id |-> 11, kind |-> "event"]}
  /\ Uninstalled([id |-> 11, kind |-> "event"])
  /\ lastTaken[11] = 0
  /\ lastTaken[12] = 1
  /\ [id |-> 12, kind |-> "event"] \in store \cap snap[GcT].store

\* the filter of the logs subscription
ZombieFilter == NewFilter(1, "event")

\* stop() has run, its uninstall of the filter failed: the subscription is
\* gone and the filter is still registered with its manager
IsZombie ==
  /\ pc[UnsubT] # "stop_loop"
  /\ uninstCalls[ZombieFilter.id] > 0
  /\ 1 \notin subs
  /\ ZombieFilter \in mgrFilters

\* C25: a filter of a subscription whose uninstall failed when the
\* subscription was stopped is eventually removed by a later GC sweep.
C25_ZombieEventuallyRemoved ==
  IsZombie ~> (ZombieFilter \notin mgrFilters)

\* ------------------------------------------------ claims on the conversion
\* the event decodes into a log; its conversions succeed
Decodes(e) == Acceptable(e.entries)
ConvOk(e) == e.conv = "ok"

\* r and items are what the conversion of the batch evs has to give: the
\* events that do not decode count for nothing
ExpectedOf(evs, r, items) ==
  LET valid == SelectSeq(evs, Decodes)
      kept == SelectSeq(valid, ConvOk)
  IN IF \E i \in 1..Len(valid) : valid[i].conv = "err"
     THEN r = "err_convert"
     ELSE /\ r = "ok"
          /\ items = [i \in 1..Len(kept) |-> kept[i].n]

\* the numbers of the payloads grow along q
Ascending(q) == \A i, j \in 1..Len(q) : i < j => q[i].n < q[j].n

\* C27: an event that fails log decoding is left out of the result of
\* EthGetLogs, EthGetFilterChanges and EthGetFilterLogs and out of what a
\* subscription delivers; it does not make the call fail and does not end
\* the subscription; the other events come in their order.
C27_UndecodableOmitted ==
  /\ [](\A c \in Clients :
          apiPc[c] = "idle" /\ apiCall[c].op = "EthGetLogs"
            => ExpectedOf(apiTaken[c], apiRes[c].r, apiRes[c].items))
  /\ [][\A c \in Clients :
          apiPc[c] = "poll_take" /\ apiPc'[c] = "idle"
            => ExpectedOf(collected[apiF[c].id], apiRes'[c].r, apiRes'[c].items)]_vars
  /\ [][\A s \in SubIDs :
          /\ inCh[s] # <<>> /\ inCh'[s] = Tail(inCh[s])
          /\ Head(inCh[s]).kind = "event" /\ ~Head(inCh[s]).ok
          => /\ pending'[s] = <<>>
             /\ enqueued'[s] = enqueued[s]
             /\ pc'[InT(s)] = "select"
             /\ ~cancelled'[s] /\ quit'[s] = quit[s]]_vars
  /\ [](\A s \in SubIDs : Ascending(enqueued[s]) /\ Ascending(delivered[s]))

\* of three events the second does not decode: EthGetLogs has returned the
\* first and the third; the subscription dropped its first event and has
\* delivered its second
C27_Witness ==
  /\ apiPc["c1"] = "idle"
  /\ apiRes["c1"].r = "ok"
  /\ Len(apiTaken["c1"]) = 3
  /\ Decodes(apiTaken["c1"][1]) /\ ~Decodes(apiTaken["c1"][2])
  /\ apiRes["c1"].items = <<1, 3>>
  /\ posted[2] = 2
  /\ Len(delivered[2]) = 1
  /\ delivered[2][1].n = 2

\* ------------------------------------------------ claims on the polls
\* the poll of c returns in this step
PollReturns(c) == apiPc[c] = "poll_take" /\ apiPc'[c] = "idle"

\* C28: an item a filter has collected is returned by at most one poll:
\* when a poll returns, the buffer of its filter is empty, a poll that finds
\* the buffer empty returns no item, and no item of a filter is returned
\* twice, by one client or by two that poll at the same time.
C28_AtMostOncePerPoll ==
  /\ [][\A c \in Clients :
          PollReturns(c) =>
            /\ collected'[apiF[c].id] = <<>>
            /\ collected[apiF[c].id] = <<>> => apiRes'[c].items = <<>>]_vars
  /\ [](\A i, j \in 1..Len(polled) : polled[i] = polled[j] => i = j)

\* both clients poll filter 11 at the same time: c1 has returned its item,
\* c2 is about to take from the emptied buffer
C28_Witness ==
  /\ apiPc["c1"] = "idle"
  /\ apiCall["c1"].op \in PollOps
  /\ apiRes["c1"].id = 11
  /\ apiRes["c1"].items # <<>>
  /\ apiPc["c2"] = "poll_take"
  /\ apiF["c2"].id = 11
  /\ collected[11] = <<>>

\* ------------------------------------------------ claims on EthGetLogs
\* c runs, or has last run, EthGetLogs
InGetLogs(c) == apiCall[c].op = "EthGetLogs"
GetLogsReturned(c) == InGetLogs(c) /\ apiPc[c] = "idle"

\* the filters registered with a manager since the call of c began
LeftBehind(c) == mgrFilters \ snap[c].mgr

\* no filter a manager holds since the call of c began is attached to a
\* subscription or about to be
NotBound(c) ==
  \A s \in SubIDs : \A f \in LeftBehind(c) :
    f \notin Range(filters[s]) /\ installing[s] # f

\* C29 as stated: whenever EthGetLogs returns, the filters registered with
\* the EventFilterManager and the contents of the store are what they were
\* before the call, and the temporary filter is bound to no subscription.
C29_NoFilterLeftBehind ==
  \A c \in Clients :
    GetLogsReturned(c) =>
      /\ mgrFilters = snap[c].mgr
      /\ store = snap[c].store
      /\ NotBound(c)

\* C29, amended: EthGetLogs never changes the store and never binds its
\* temporary filter to a subscription; once it has taken the collected
\* events it calls uninstallFilter on the temporary filter, and when it
\* returns the EventFilterManager holds what it held before the call, or,
\* when the manager's Remove failed, that and the temporary filter.
C29_NoFilterLeftUnlessRemoveFails ==
  /\ [](\A c \in Clients :
          InGetLogs(c) =>
            /\ store = snap[c].store
            /\ snap[c].mgr \subseteq mgrFilters
            /\ LeftBehind(c) \subseteq {[id |-> 10 + installs, kind |-> "event"]}
            /\ NotBound(c)
            /\ apiPc[c] = "idle" /\ installs = snap[c].installs => LeftBehind(c) = {})
  /\ [][\A c \in Clients :
          InGetLogs(c) =>
            /\ apiPc[c] = "gl_take" /\ apiPc'[c] # "gl_take"
                 => apiPc'[c] = "un_mgr" /\ apiF'[c] = apiF[c]
            /\ apiPc[c] = "un_mgr" /\ apiPc'[c] # "un_mgr"
                 => \/ apiPc'[c] = "un_store" /\ apiF[c] \notin mgrFilters'
                    \/ apiPc'[c] = "gl_result" /\ mgrFilters' = mgrFilters
            /\ apiPc[c] = "un_store" /\ apiPc'[c] # "un_store"
                 => apiPc'[c] = "gl_result" /\ LeftBehind(c)' = {}]_vars

\* EthGetLogs has returned logs; its temporary filter was installed and is
\* gone, the filter that was in the store before is still there
C29_Witness ==
  /\ GetLogsReturned("c1")
  /\ apiRes["c1"].r = "ok"
  /\ apiRes["c1"].items # <<>>
  /\ installs = snap["c1"].installs + 1
  /\ mgrFilters = snap["c1"].mgr
  /\ store = snap["c1"].store
  /\ store # {}

\* the step of c returns an error and no result, and installs nothing
ReturnsErrorStep(c) ==
  /\ apiPc'[c] = "idle"
  /\ IsError(apiRes'[c].r)
  /\ apiRes'[c].items = <<>>
  /\ installs' = installs
  /\ mgrFilters' = mgrFilters
  /\ store' = store

\* the errors EthGetLogs returns for an index that is disabled, fails, is
\* late or has not processed the tipset
IndexErrors ==
  {"err_index_disabled", "err_check", "err_deadline", "err_processed_check",
   "err_not_indexed"}

\* C30: EthGetLogs returns an error and no result, and installs no
\* temporary filter, when the historical index is disabled, when
\* IsHeightPast or IsTipsetProcessed fails, when the wait for the index
\* times out, and when the index says the tipset is not processed.
C30_IndexFailureIsError ==
  /\ [][\A c \in Clients :
          /\ ( /\ apiPc[c] = "idle"
               /\ apiCall'[c].op = "EthGetLogs"
               /\ calls' = calls + 1
               /\ ~disable
               /\ ~indexEnabled )
               => ReturnsErrorStep(c) /\ apiRes'[c].r = "err_index_disabled"
          /\ ( /\ apiPc[c] = "gl_wait"
               /\ apiPc'[c] # "gl_wait"
               /\ wfResult \in {"err_check", "err_deadline"} )
               => ReturnsErrorStep(c) /\ apiRes'[c].r = wfResult
          /\ ( /\ apiPc[c] = "gl_wait"
               /\ apiPc'[c] # "gl_wait"
               /\ tipsetProcessed' \in {"err", "false"} )
               => ReturnsErrorStep(c)
                  /\ apiRes'[c].r \in {"err_processed_check", "err_not_indexed"}]_vars
  /\ [](\A c \in Clients :
          GetLogsReturned(c) /\ apiRes[c].r \in IndexErrors
            => AsBeforeCall(c) /\ apiRes[c].items = <<>>)

\* EthGetLogs has given up on an index that was late, next to a filter
\* installed before; nothing was installed by the call
C30_Witness ==
  /\ GetLogsReturned("c1")
  /\ apiRes["c1"].r = "err_deadline"
  /\ apiRes["c1"].items = <<>>
  /\ installs = snap["c1"].installs
  /\ mgrFilters # {}

\* ----------------------------------------- claims on the delivery pipeline
\* the delivery stage of s sleeps in its select and nobody is inside send()
OutSleeps(s) == pc[OutT(s)] = "select" /\ sendLk[s] = NoThread

BlockedStep(s) ==
  \/ StartSubscription(s)
  \/ SubscribeInstall(s, {"logs"})
  \/ AddFilterLock(s)
  \/ AddFilter(s)
  \/ IngestStart(s)
  \/ IngestDone(s)
  \/ IngestReceive(s)
  \/ SendMarshalFail(s)
  \/ SendEnqueue(s)
  \/ SendOverflow(s)
  \/ SendReturnStopped(s)
  \/ OutDone(s)
  \/ OutWake(s)
  \/ OutDequeue(s)
  \/ Post(s, MaxItems)
  \/ StopLock(InT(s))
  \/ StopAlready(InT(s))
  \/ StopCancel(InT(s))
  \/ StopRange(InT(s))
  \/ StopUninstall(InT(s))
  \/ StopReturn(InT(s))

\* the stop() that send() calls on s
SendStopStep(s) ==
  \/ StopLock(InT(s)) \/ StopAlready(InT(s)) \/ StopCancel(InT(s))
  \/ StopRange(InT(s))
  \/ StopUninstall(InT(s)) \/ StopReturn(InT(s))

NextBlocked ==
  \/ BlockedStep(1)
  \/ BystanderStep(2)

\* The goroutines are scheduled; the callback of the first subscription is
\* not: it never returns.
BlockedSpec ==
  /\ Init /\ [][NextBlocked]_vars
  /\ WF_vars(IngestStep(1)) /\ WF_vars(SendStopStep(1))
  /\ WF_vars(OutWake(1) \/ OutDequeue(1) \/ OutDone(1))
  /\ WF_vars(IngestStep(2)) /\ WF_vars(OutStep(2))

\* C32: a callback that never returns blocks neither the ingest stage of
\* its subscription nor any other subscription. sendLk is never held by the
\* delivery stage while its callback runs; every call of send() completes
\* and every item in the input channel is taken out, while the callback of
\* the subscription is blocked; and another subscription delivers what it
\* enqueues.
C32_BlockedCallbackBlocksNobody ==
  /\ [](\A s \in SubIDs : inflight[s] > 0 => sendLk[s] # OutT(s))
  /\ \A s \in SubIDs :
       /\ (pc[InT(s)] \in {"send_lock", "send_ret"} \cup StopPcs)
            ~> (pc[InT(s)] \in {"select", "done"})
       /\ (inCh[s] # <<>>) ~> (inCh[s] = <<>> \/ pc[InT(s)] = "done")
  /\ \A k \in 1..MaxItems :
       (Len(enqueued[2]) >= k) ~> (Len(delivered[2]) >= k)

\* the callback of the first subscription is blocked on the first payload;
\* send() has completed again since, the cap has triggered the teardown and
\* the ingest stage has left; the second subscription has delivered
C32_Witness ==
  /\ pc[OutT(1)] = "out_wait" /\ inflight[1] = 1
  /\ Len(enqueued[1]) = maxSendQueue + 2
  /\ stopper[1] = InT(1) /\ pc[InT(1)] = "done"
  /\ sendLk[1] = NoThread
  /\ delivered[2] # <<>>

\* C33: whenever EthSubscribe has returned an error after StartSubscription
\* succeeded, the subscription it created is not in the registry and its
\* token is cancelled.
C33_ErrorAfterStartCleansUp ==
  \A s \in SubIDs :
    (pc[SubT(s)] = "done" /\ result[SubT(s)] \in {"err", "err_rejected"}) =>
       /\ s \notin subs
       /\ cancelled[s]

\* a call of stop() has cancelled s and has returned, and no other call of
\* stop() is running on s
Stopped(s) ==
  /\ cancelled[s]
  /\ \A t \in Threads : ~InStop(t, s)

\* C34: once a subscription has been stopped the callback is not invoked
\* again, whatever is left in its outbound queue.
C34_NoDeliveryAfterStop ==
  [][\A s \in SubIDs : Stopped(s) => delivered'[s] = delivered[s]]_vars

\* C35: no filter attached to a subscription outlives it: once the
\* subscription is stopped, uninstallFilter has been called on every filter
\* addFilter has attached, however addFilter and stop() interleaved.
C35_NoFilterOutlivesSubscription ==
  \A s \in SubIDs :
    Stopped(s) => \A f \in Range(filters[s]) : uninstCalls[f.id] >= 1

\* ---- the locks of a subscription
\* the locks the thread t holds
HeldBy(t) ==
  (IF mgrMu = t THEN {<<"mgr", 0>>} ELSE {})
    \cup {<<"sub", s>> : s \in {r \in SubIDs : subMu[r] = t}}
    \cup {<<"send", s>> : s \in {r \in SubIDs : sendLk[r] = t}}

\* the lock the thread t is about to acquire, if any
WaitsFor(t) ==
  CASE pc[t] = "unsub_lock" -> {<<"mgr", 0>>}
    [] pc[t] \in {"stop_lock", "addf_lock"} -> {<<"sub", arg[t]>>}
    [] pc[t] \in {"send_lock", "out_lock"} -> {<<"send", t[2]>>}
    [] OTHER -> {}

\* the order the locks are taken in: the registry lock and sendLk come
\* before the mu of a subscription
LockRank(l) == IF l[1] = "sub" THEN 2 ELSE 1

\* the thread t is in StopSubscription, stop() or send()
InLockedCall(t) ==
  pc[t] \in StopPcs \cup {"unsub_lock", "unsub_del", "send_lock", "send_ret"}

\* C36: the locks of the subscriptions never deadlock. A thread that is
\* about to acquire a lock holds only locks that come before it in one fixed
\* order (registry mu and sendLk before the mu of a subscription), and
\* every call of StopSubscription, stop() and send() completes, whether
\* stop() was called from send() with sendLk held, from startOut() after a
\* failed delivery or from StopSubscription with the registry lock held.
C36_NoLockCycle ==
  /\ [](\A t \in Threads : \A w \in WaitsFor(t) : \A h \in HeldBy(t) :
          LockRank(h) < LockRank(w))
  /\ \A t \in Threads : InLockedCall(t) ~> ~InLockedCall(t)

\* StopSubscription holds the registry lock and waits for the mu of the
\* subscription, which the stop() called from send() holds together with
\* sendLk, while the delivery stage waits for sendLk
C36_Witness ==
  /\ mgrMu = UnsubT /\ pc[UnsubT] = "stop_lock" /\ arg[UnsubT] = 1
  /\ subMu[1] = InT(1) /\ sendLk[1] = InT(1)
  /\ pc[OutT(1)] = "out_lock"

\* ---- EthUninstallFilter
\* One client installs filters and two clients uninstall them, possibly the
\* same one at the same time.
NextUninstall ==
  \/ NewFilterStep("c1", {"EthNewFilter"}, {NoSpec})
  \/ \E c \in Clients : UninstallCall(c) \/ UninstallManager(c) \/ UninstallStore(c)

UninstallSpec == Init /\ [][NextUninstall]_vars

\* the step begins a call of EthUninstallFilter by c
UninstallBegins(c) ==
  /\ apiPc[c] = "idle"
  /\ calls' = calls + 1
  /\ apiCall'[c].op = "EthUninstallFilter"
  /\ <<apiPc[c], apiCall[c], apiRes[c]>>' # <<apiPc[c], apiCall[c], apiRes[c]>>

\* c runs, or has last run, EthUninstallFilter
InUninstall(c) == apiCall[c].op = "EthUninstallFilter"

\* the filters with the identifier id that are in the store or registered
\* with a manager
Registered(id) == {f \in store \cup mgrFilters : f.id = id}

\* a call of EthUninstallFilter on an id the store does not have returns
\* (false, nil) and changes neither the store nor the managers
NotFoundChangesNothing ==
  [][/\ \A c \in Clients :
          (UninstallBegins(c) /\ \A f \in store : f.id # apiCall'[c].id) =>
             /\ apiPc'[c] = "idle"
             /\ apiRes'[c].r = "false"
             /\ UNCHANGED <<store, mgrFilters, lastTaken, collected, installs>>
     /\ (calls' = calls + 1 /\ apiPc' = apiPc) =>
          UNCHANGED <<store, mgrFilters, lastTaken, collected, installs>>]_vars

\* C37 as stated: EthUninstallFilter returns (false, nil) and changes
\* nothing when the id is not in the store; otherwise it returns true, and
\* then the filter is registered neither with a manager nor in the store.
C37_UninstallReturnsTrue ==
  /\ NotFoundChangesNothing
  /\ [](\A c \in Clients :
          (InUninstall(c) /\ apiPc[c] = "idle") =>
             \/ apiRes[c].r = "false"
             \/ apiRes[c].r = "true" /\ Registered(apiCall[c].id) = {})

\* C37, amended: EthUninstallFilter returns (false, nil) and changes
\* nothing when the id is not in the store. Otherwise uninstallFilter first
\* asks the manager to remove the filter: a failure of the manager is
\* returned as the error of the call, with the store untouched and the
\* filter still registered; a filter the manager no longer has is tolerated.
\* Then the filter is removed from the store: the call returns true when
\* the store had it and the store's not-found error when a concurrent
\* uninstall removed it first. After a call that returned true the filter
\* is registered neither with a manager nor in the store.
C37_UninstallManagerThenStore ==
  /\ NotFoundChangesNothing
  /\ [][\A c \in Clients :
          /\ (UninstallBegins(c) /\ \E f \in store : f.id = apiCall'[c].id) =>
                /\ apiPc'[c] = "un_mgr"
                /\ apiF'[c] \in store /\ apiF'[c].id = apiCall'[c].id
                /\ UNCHANGED <<store, mgrFilters>>
          /\ (InUninstall(c) /\ apiPc[c] = "un_mgr" /\ apiPc'[c] # "un_mgr") =>
                \/ /\ apiPc'[c] = "un_store"
                   /\ mgrFilters' = mgrFilters \ {apiF[c]}
                   /\ store' = store
                \/ /\ apiPc'[c] = "idle"
                   /\ apiRes'[c].r = "err_remove"
                   /\ UNCHANGED <<store, mgrFilters>>
          /\ (InUninstall(c) /\ apiPc[c] = "un_store" /\ apiPc'[c] # "un_store") =>
                /\ apiPc'[c] = "idle"
                /\ store' = store \ {apiF[c]}
                /\ mgrFilters' = mgrFilters
                /\ apiRes'[c].r = IF apiF[c] \in store THEN "true" ELSE "err_notfound"]_vars
  /\ [](\A c \in Clients :
          (InUninstall(c) /\ apiPc[c] = "idle" /\ apiRes[c].r = "true")
             => Registered(apiCall[c].id) = {})

\* two clients uninstalled the same filter at the same time: the manager's
\* not-found was tolerated, one call returned true and the other the
\* store's error, and the filter is registered nowhere
C37_Witness ==
  /\ InUninstall("c1") /\ apiPc["c1"] = "idle" /\ apiRes["c1"].r = "true"
  /\ InUninstall("c2") /\ apiPc["c2"] = "idle" /\ apiRes["c2"].r = "err_notfound"
  /\ apiCall["c1"].id = apiCall["c2"].id
  /\ Registered(apiCall["c1"].id) = {}

\* ---- claims on parseBlockRange, continued
\* C38: on success parseBlockRange returns minHeight >= 0 and
\* maxHeight >= -1, whatever the input, hex heights in the upper half of
\* the unsigned range included; and maxHeight is -1 only for a to-bound
\* that is nil, empty or "latest", never for a hex height.
C38_HeightsNeverNegative ==
  (prPc = "done" /\ prErr = "nil") =>
     /\ minHeight >= 0
     /\ maxHeight >= -1
     /\ maxHeight = -1 => IsLatest(toBlock)

\* ---- claims on the send queue counter
\* C39: whenever the send-queue lock of a subscription is free, its
\* sendQueueLen equals the number of payloads in its toSend queue; and
\* sendQueueLen is never negative.
C39_QueueLenMatchesQueue ==
  \A s \in SubIDs :
     /\ sendQueueLen[s] >= 0
     /\ sendLk[s] = NoThread => sendQueueLen[s] = Len(toSend[s])

\* a payload was dequeued and delivered, others are still queued, lock free
C39_Witness ==
  \E s \in SubIDs :
     /\ sendLk[s] = NoThread
     /\ Len(delivered[s]) >= 1
     /\ Len(toSend[s]) >= 1
     /\ sendQueueLen[s] = Len(toSend[s])

====
